---- MODULE Spec2Model ----
(***************************************************************************)
(* Model of kbac/loaders/matrix_script_loader.py (MatrixScriptLoader): the *)
(* line classifier (_parse_page_line and its regex helpers), the page      *)
(* parser, the aggregation pass (itertools.groupby + _agg_line_groups) and *)
(* the contextualizing loop of load().                                     *)
(*                                                                         *)
(* A text is a sequence of one-character strings.  Python's None is the    *)
(* value None below where a text or a hash is expected, and NoneInt where  *)
(* an int is expected.                                                     *)
(***************************************************************************)
EXTENDS Integers, Sequences, FiniteSets, TLC

VARIABLES
    cfg,                   \* the constructor arguments kept on self
    pc,                    \* position inside load() / the classifier call
    page_number,           \* index of the page parse_page is working on
    line_items,            \* load(): line_items (classified, then merged)
    classified,            \* the value line_items had when aggregation began
    idx,                   \* load(): position of the next record of the loop
    location,              \* load(): location
    scene_description_id,  \* load(): scene_description_id
    character,             \* load(): character
    documents,             \* load(): documents
    error,                 \* the exception that left load() / the classifier
    line_text,             \* _parse_page_line: the line_text argument
    parsed,                \* _parse_page_line: what the call produced
    page_texts,            \* parse_page: the lines of each page handed to it
    parsed_pages,          \* load(): parsed_pages, the list each call returned
    rag_pc,                \* position inside RAGService.index() / query()
    calls,                 \* the calls made on loader, retriever and generator
    initialized,           \* what retriever.is_initialized() answers
    rag_documents,         \* index(): documents
    question,              \* query(): question
    top_k,                 \* query(): top_k
    attach_documents,      \* query(): attach_documents
    retrieval_results,     \* query(): retrieval_results
    result,                \* query(): result
    qdrant_pc,             \* QdrantRetrieverService: where the run on it stands
    client,                \* QdrantClient: the collection and its points
    vectorstore,           \* QdrantRetrieverService.vectorstore
    search_results,        \* retrieve(): search_results
    results,               \* retrieve(): results
    response,              \* POST /agent/query: the HTTP response
    n_calls,               \* calls made on the retriever so far
    gen_pc,                \* position inside generate_response
    gen_query,             \* generate_response: query
    subqueries,            \* _handle_complex_query: decomposition.subqueries
    subquery_responses,    \* _handle_complex_query: subquery_responses
    all_sources,           \* _handle_complex_query: all_sources
    gen_result,            \* the QueryResult generate_response returns
    rag_service_cache,     \* what lru_cache holds for get_rag_service
    requests,              \* POST /agent/query: where each request stands
    constructed,           \* RAGService instances constructed so far
    index_runs,            \* runs of RAGService.index() so far
    chunk_pc,              \* position inside load_documents
    chunk_config,          \* MatrixDocumentLoaderService: chunk_size, overlap
    raw_documents,         \* _create_intelligent_chunks: raw_documents
    chunks,                \* _create_intelligent_chunks: chunks
    current_chunk,         \* _create_intelligent_chunks: current_chunk
    chunk_trace,           \* history: per chunk, its overlap and the documents added
    chunk_documents        \* load_documents: documents

pageVars == <<page_texts, parsed_pages>>

ragVars == <<rag_pc, calls, initialized, rag_documents, question, top_k,
             attach_documents, retrieval_results, result>>

qdrantVars == <<qdrant_pc, client, vectorstore, search_results, results, response, n_calls>>

genVars == <<gen_pc, gen_query, subqueries, subquery_responses, all_sources, gen_result>>

appVars == <<rag_service_cache, requests, constructed, index_runs>>

chunkVars == <<chunk_pc, chunk_config, raw_documents, chunks, current_chunk,
               chunk_trace, chunk_documents>>

serviceVars == <<qdrantVars, genVars, appVars, chunkVars>>

otherVars == <<pageVars, ragVars, serviceVars>>

vars == <<cfg, pc, page_number, line_items, classified, idx, location,
          scene_description_id, character, documents, error, line_text, parsed,
          pageVars, ragVars, serviceVars>>

\* ------------------------------------------------------------------ bounds
MaxItems == 3       \* classified records per document
MaxPages == 3       \* pages of the PDF (page numbers 0 .. MaxPages-1)
MaxLineLen == 5     \* length of the exhaustively enumerated short lines
HashMod == 7        \* size of the digest space standing for joblib.hash
MaxDocs == 2        \* documents a loader returns / results a retriever returns
MaxTopK == 2        \* the largest top_k a query is made with

\* ------------------------------------------------------------------ texts
None == <<"None">>
NoneInt == -1

UpperChars == {"A", "B", "C", "D", "E", "F", "G", "H", "I", "J", "K", "L", "M",
               "N", "O", "P", "Q", "R", "S", "T", "U", "V", "W", "X", "Y", "Z"}
LowerChars == {"a", "b", "c", "d", "e", "f", "g", "h", "i", "j", "k", "l", "m",
               "n", "o", "p", "q", "r", "s", "t", "u", "v", "w", "x", "y", "z"}
Digits == {"0", "1", "2", "3", "4", "5", "6", "7", "8", "9"}

\* n spaces
Sp(n) == [i \in 1..n |-> " "]

\* s[from..] (1-based, empty when from > Len(s))
Tail_(s, from) == SubSeq(s, from, Len(s))

\* str.isupper(): at least one cased character and no lower-case one
IsUpper(s) ==
    /\ \E i \in 1..Len(s) : s[i] \in UpperChars
    /\ \A i \in 1..Len(s) : s[i] \notin LowerChars

\* length of the run of whitespace that starts at position from
WsRun(s, from) ==
    CHOOSE n \in 0..(Len(s) - from + 1) :
        /\ \A i \in from..(from + n - 1) : s[i] = " "
        /\ (from + n > Len(s) \/ s[from + n] # " ")

\* length of the run of digits that starts at position from
DigitRun(s, from) ==
    CHOOSE n \in 0..(Len(s) - from + 1) :
        /\ \A i \in from..(from + n - 1) : s[i] \in Digits
        /\ (from + n > Len(s) \/ s[from + n] \notin Digits)

\* the position of the last character of s that is no whitespace, 0 if none
LastInk(s) ==
    CHOOSE i \in 0..Len(s) :
        /\ (i > 0 => s[i] # " ")
        /\ \A j \in (i + 1)..Len(s) : s[j] = " "

\* str.strip()
Strip(s) == SubSeq(s, WsRun(s, 1) + 1, LastInk(s))

\* `tag in line_text`
IsSubstring(tag, s) ==
    \E i \in 1..(Len(s) - Len(tag) + 1) : SubSeq(s, i, i + Len(tag) - 1) = tag

\* " ".join(texts)
RECURSIVE Join(_)
Join(texts) ==
    IF Len(texts) = 0 THEN <<>>
    ELSE IF Len(texts) = 1 THEN texts[1]
    ELSE texts[1] \o <<" ">> \o Join(Tail(texts))

\* ----------------------------------------------------------- configuration
TagFadeIn == <<"F", "A", "D", "E", " ", "I", "N", ":">>
TagContinued == <<"C", "O", "N", "T", "I", "N", "U", "E", "D">>
TagOmitted == <<"O", "M", "I", "T", "T", "E", "D">>
TagRev == <<"T", "H", "E", " ", "M", "A", "T", "R", "I", "X", " ", "-", " ", "R", "e", "v", ".">>
TagFadeOut == <<"F", "A", "D", "E", " ", "O", "U", "T", ".">>
TagTheEnd == <<"T", "H", "E", " ", "E", "N", "D">>
TagMore == <<"(", "M", "O", "R", "E", ")">>
TagFadeToBlack == <<"F", "A", "D", "E", " ", "T", "O", " ", "B", "L", "A", "C", "K", ".">>

\* the defaults with the first dialog margin set to that of the action lines
DefaultConfig_DialogAt8 ==
    [ ignoread_tags |-> {TagFadeIn, TagContinued, TagOmitted, TagRev, TagFadeOut,
                         TagTheEnd, TagMore, TagFadeToBlack},
      location_margins |-> {8, 9},
      description_margins |-> {8, 9},
      dialog_margins |-> {8, 30},
      character_margins |-> {32, 38, 39},
      start_page |-> 1,
      end_page |-> NoneInt ]

\* MatrixScriptLoader(source_path=...): every other argument at its default
DefaultConfig ==
    [ ignoread_tags |-> {TagFadeIn, TagContinued, TagOmitted, TagRev, TagFadeOut,
                         TagTheEnd, TagMore, TagFadeToBlack},
      location_margins |-> {8, 9},
      description_margins |-> {8, 9},
      dialog_margins |-> {21, 30},
      character_margins |-> {32, 38, 39},
      start_page |-> 1,
      end_page |-> NoneInt ]

\* A parser constructed with small margins, so that short lines classify:
\* character/description share margin 3 and description/dialog share margin 4.
SmallConfig ==
    [ ignoread_tags |-> {<<"A", "a">>},
      location_margins |-> {3, 4},
      description_margins |-> {3, 4},
      dialog_margins |-> {4, 5},
      character_margins |-> {2, 3},
      start_page |-> 1,
      end_page |-> NoneInt ]

\* ------------------------------------------------------------- classifier
\* (None, None)
NoMatch == [text |-> None, margin |-> NoneInt]

\* [AB]? at position p: the position behind it
OptLetter(s, p) == IF p <= Len(s) /\ s[p] \in {"A", "B"} THEN p + 1 ELSE p

\* \d+$ at position q
DigitsToEnd(s, q) == DigitRun(s, q) >= 1 /\ q + DigitRun(s, q) - 1 = Len(s)

\* \s{2,}[AB]?\d+$ at position p, w being the run of whitespace there
LocationTailWs(s, p, w) == w >= 2 /\ DigitsToEnd(s, OptLetter(s, p + w))

\* the text after position e2 matches  \s{2,}[AB]?\d+$
LocationTail(s, e2) == LocationTailWs(s, e2 + 1, WsRun(s, e2 + 1))

\* \s{2,})(.*?)(\s{2,}[AB]?\d+$ at position g, w being the run of whitespace
\* there: the pairs <<e1, e2>> with group 1 = s[1..e1], group 2 = s[e1+1..e2]
LocationGaps(s, g, w) ==
    IF w < 2 THEN {}
    ELSE {m \in ((g + 1)..(g + w - 1)) \X ((g + 1)..Len(s)) :
             m[2] >= m[1] /\ LocationTail(s, m[2])}

\* \d+\s{2,})(.*?)(\s{2,}[AB]?\d+$ at position q, d being the run of digits there
LocationDigits(s, q, d) ==
    IF d = 0 THEN {} ELSE LocationGaps(s, q + d, WsRun(s, q + d))

\* regex.match(r"([AB]?\d+\s{2,})(.*?)(\s{2,}[AB]?\d+$)", line_text): every way
\* the pattern matches at the start of the line
LocationMatches(s) == LocationDigits(s, OptLetter(s, 1), DigitRun(s, OptLetter(s, 1)))

\* the match the backtracking engine reports: the greedy \s{2,} of group 1 as
\* long as possible, then the lazy .*? as short as possible
LocationMatch(ms) ==
    CHOOSE m \in ms : \A x \in ms : x[1] < m[1] \/ (x[1] = m[1] /\ m[2] <= x[2])

\* margin = len(groups[0]); the margin test; groups[1].strip()
LocationGroups(c, s, m) ==
    IF m[1] \notin c.location_margins THEN NoMatch
    ELSE [text |-> Strip(SubSeq(s, m[1] + 1, m[2])), margin |-> m[1]]

LocationOf(c, s, ms) ==
    IF ms = {} THEN NoMatch ELSE LocationGroups(c, s, LocationMatch(ms))

GetLocationText(c, s) ==
    IF ~IsUpper(s) THEN NoMatch ELSE LocationOf(c, s, LocationMatches(s))

\* s without s[fo..lc]
Without(s, fo, lc) == SubSeq(s, 1, fo - 1) \o Tail_(s, lc + 1)

\* the least / the greatest member of a non-empty set of positions
Least(ps) == CHOOSE i \in ps : \A j \in ps : i <= j

Greatest(ps) == CHOOSE i \in ps : \A j \in ps : j <= i

SubParensAt(s, opens, closes) ==
    IF opens = {} \/ closes = {} THEN s
    ELSE IF Least(opens) > Greatest(closes) THEN s
    ELSE Without(s, Least(opens), Greatest(closes))

\* regex.sub(r"\(.*\)", "", text): the greedy match runs from the first "(" to
\* the last ")" after it; nothing is left to match behind it
SubParens(s) ==
    SubParensAt(s, {i \in 1..Len(s) : s[i] = "("}, {i \in 1..Len(s) : s[i] = ")"})

\* the margin test of the cue and the clean-up of its text
CharacterGroups(c, s, margin) ==
    IF margin < 2 THEN NoMatch
    ELSE IF margin \notin c.character_margins THEN NoMatch
    ELSE [text |-> Strip(SubParens(Tail_(s, margin + 1))), margin |-> margin]

GetCharacterText(c, s) ==
    IF ~IsUpper(s) THEN NoMatch ELSE CharacterGroups(c, s, WsRun(s, 1))

NonUpperGroups(s, margins, margin) ==
    IF margin < 2 THEN NoMatch
    ELSE IF margin \notin margins THEN NoMatch
    ELSE [text |-> Strip(Tail_(s, margin + 1)), margin |-> margin]

\* _get_non_upper_text without its margin test
GetNonUpperText_AnyMargin(s, margins) ==
    IF WsRun(s, 1) < 2 THEN NoMatch
    ELSE [text |-> Strip(Tail_(s, WsRun(s, 1) + 1)), margin |-> WsRun(s, 1)]

GetNonUpperText(s, margins) == NonUpperGroups(s, margins, WsRun(s, 1))

GetDescriptionText(c, s) == GetNonUpperText(s, c.description_margins)

GetDialogText(c, s) == GetNonUpperText(s, c.dialog_margins)

Accepts(r) == r.text # None /\ r.margin # NoneInt

\* the placeholder carried where no LineItem exists
NoItem == [page_number |-> NoneInt, text_type |-> "None", text |-> None, margin |-> NoneInt]

\* LineItem(...): pydantic validates page_number >= 0, text of min_length 1,
\* margin > 0 and raises ValidationError otherwise
LineItem(pn, text_type, text, margin) ==
    IF pn >= 0 /\ Len(text) >= 1 /\ margin > 0
    THEN [status |-> "item",
          item |-> [page_number |-> pn, text_type |-> text_type, text |-> text,
                    margin |-> margin]]
    ELSE [status |-> "ValidationError", item |-> NoItem]

\* a tag counts only where the text of the line begins with it
Ignored_AtStart(c, s) ==
    \E tag \in c.ignoread_tags :
        Len(Strip(s)) >= Len(tag) /\ SubSeq(Strip(s), 1, Len(tag)) = tag

\* any(it in line_text for it in self.ignoread_tags)
Ignored(c, s) == \E tag \in c.ignoread_tags : IsSubstring(tag, s)

\* the description test moved in front of the character test
FirstAccepted_DescriptionFirst(pn, loc, chr, des, dia) ==
    IF Accepts(loc) THEN LineItem(pn, "location", loc.text, loc.margin)
    ELSE IF Accepts(des) THEN LineItem(pn, "description", des.text, des.margin)
    ELSE IF Accepts(chr) THEN LineItem(pn, "character", chr.text, chr.margin)
    ELSE IF Accepts(dia) THEN LineItem(pn, "dialog", dia.text, dia.margin)
    ELSE [status |-> "none", item |-> NoItem]

\* the four tests in the order of _parse_page_line: the first one that returns
\* a text and a margin builds the LineItem
FirstAccepted(pn, loc, chr, des, dia) ==
    IF Accepts(loc) THEN LineItem(pn, "location", loc.text, loc.margin)
    ELSE IF Accepts(chr) THEN LineItem(pn, "character", chr.text, chr.margin)
    ELSE IF Accepts(des) THEN LineItem(pn, "description", des.text, des.margin)
    ELSE IF Accepts(dia) THEN LineItem(pn, "dialog", dia.text, dia.margin)
    ELSE [status |-> "none", item |-> NoItem]

ParsePageLine(c, s, pn) ==
    IF Ignored(c, s) THEN [status |-> "none", item |-> NoItem]
    ELSE FirstAccepted(pn, GetLocationText(c, s), GetCharacterText(c, s),
                       GetDescriptionText(c, s), GetDialogText(c, s))

\* -------------------------------------------------------------- aggregator
\* runs are formed within one page only
GroupKey_WithPage(x) == <<x.text_type, x.margin, x.page_number>>

\* key=lambda x: (x.text_type, x.margin)
GroupKey(x) == <<x.text_type, x.margin>>

\* length of the first run of records of s with equal keys
RunLen(s) ==
    CHOOSE n \in 1..Len(s) :
        /\ \A i \in 1..n : GroupKey(s[i]) = GroupKey(s[1])
        /\ (n = Len(s) \/ GroupKey(s[n + 1]) # GroupKey(s[1]))

\* itertools.groupby(line_items, key): the runs of adjacent records with equal
\* keys, in order
RECURSIVE GroupBy(_)
RECURSIVE GroupByRun(_, _)
GroupByRun(s, n) == <<SubSeq(s, 1, n)>> \o GroupBy(Tail_(s, n + 1))

GroupBy(s) == IF s = <<>> THEN <<>> ELSE GroupByRun(s, RunLen(s))

\* the merged record takes the page of the last member of its run
AggLineGroups_LastPage(line_group) ==
    IF Len(line_group) = 1 THEN [status |-> "item", item |-> line_group[1]]
    ELSE IF line_group[1].text_type \in {"location", "character"}
    THEN [status |-> "AssertionError", item |-> NoItem]
    ELSE LineItem(line_group[Len(line_group)].page_number, line_group[1].text_type,
                  Join([i \in 1..Len(line_group) |-> line_group[i].text]),
                  line_group[1].margin)

\* _agg_line_groups without its assert: every run is joined
AggLineGroups_NoAssert(line_group) ==
    IF Len(line_group) = 1 THEN [status |-> "item", item |-> line_group[1]]
    ELSE LineItem(line_group[1].page_number, line_group[1].text_type,
                  Join([i \in 1..Len(line_group) |-> line_group[i].text]),
                  line_group[1].margin)

\* _agg_line_groups: the record of a run, or AssertionError
AggLineGroups(line_group) ==
    IF Len(line_group) = 1 THEN [status |-> "item", item |-> line_group[1]]
    ELSE IF line_group[1].text_type \in {"location", "character"}
    THEN [status |-> "AssertionError", item |-> NoItem]
    ELSE LineItem(line_group[1].page_number, line_group[1].text_type,
                  Join([i \in 1..Len(line_group) |-> line_group[i].text]),
                  line_group[1].margin)

\* [self._agg_line_groups(line_group=list(lg[1])) for lg in line_groups]
AggEach(groups) == [i \in 1..Len(groups) |-> AggLineGroups(groups[i])]

\* the outcome of the list comprehension over the results all: the merged
\* records, or the exception of the first run that raises
AggOutcome(all) ==
    IF \A i \in 1..Len(all) : all[i].status = "item"
    THEN [status |-> "ok", items |-> [i \in 1..Len(all) |-> all[i].item]]
    ELSE [status |-> all[Least({i \in 1..Len(all) : all[i].status # "item"})].status,
          items |-> <<>>]

AggResult(s) == AggOutcome(AggEach(GroupBy(s)))

\* ---------------------------------------------------------- contextualizer
\* joblib.hash(text): a digest computed from the content of the text alone
CharCode(ch) ==
    IF ch \in UpperChars THEN 1
    ELSE IF ch \in LowerChars THEN 2
    ELSE IF ch \in Digits THEN 3
    ELSE IF ch = " " THEN 5
    ELSE 4

RECURSIVE HashSum(_, _)
HashSum(text, i) ==
    IF i > Len(text) THEN 0 ELSE i * CharCode(text[i]) + HashSum(text, i + 1)

JoblibHash(text) == <<"md5", HashSum(text, 1) % HashMod>>

\* a heading is taken only while no location is set
NextLocation_KeepFirst(loc, li) ==
    IF li.text_type = "location" /\ loc = None THEN li.text ELSE loc

\* the loop body of load(), one assignment each
NextLocation(loc, li) == IF li.text_type = "location" THEN li.text ELSE loc

\* a heading starts a new scene and clears the current character
NextCharacter_ClearedByLocation(chr, li) ==
    IF li.text_type = "character" THEN li.text
    ELSE IF li.text_type = "location" THEN None
    ELSE chr

NextCharacter(chr, li) == IF li.text_type = "character" THEN li.text ELSE chr

\* a heading starts a new scene and clears the scene-description id
NextSceneDescriptionId_ResetOnLocation(sid, li) ==
    IF li.text_type = "description" THEN JoblibHash(li.text)
    ELSE IF li.text_type = "location" THEN None
    ELSE sid

\* the digest is salted with the page of the record
NextSceneDescriptionId_SaltedByPage(sid, li) ==
    IF li.text_type = "description"
    THEN <<"md5", (HashSum(li.text, 1) + li.page_number) % HashMod>>
    ELSE sid

NextSceneDescriptionId(sid, li) ==
    IF li.text_type = "description" THEN JoblibHash(li.text) ELSE sid

\* Document(text=..., metadata={...}) of a description record
SceneDocument(li, i, loc, sid) ==
    [ text |-> li.text,
      text_type |-> "scene_description",
      scene_description_id |-> sid,
      character |-> None,
      location |-> loc,
      page_number |-> li.page_number,
      line_number |-> i ]

\* Document(text=..., metadata={...}) of a dialog record
DialogDocument(li, i, loc, sid, chr) ==
    [ text |-> li.text,
      text_type |-> li.text_type,
      character |-> chr,
      location |-> loc,
      scene_description_id |-> sid,
      page_number |-> li.page_number,
      line_number |-> i ]

\* enumerate(line_items) without start=1
Emitted_ZeroBased(li, i, loc, sid, chr) ==
    IF li.text_type = "description"
    THEN <<SceneDocument(li, i - 1, loc, NextSceneDescriptionId(sid, li))>>
    ELSE IF li.text_type = "dialog" THEN <<DialogDocument(li, i - 1, loc, sid, chr)>>
    ELSE <<>>

\* a description is emitted only once a location is known
Emitted_NeedsLocation(li, i, loc, sid, chr) ==
    IF li.text_type = "description" /\ loc # None
    THEN <<SceneDocument(li, i, loc, NextSceneDescriptionId(sid, li))>>
    ELSE IF li.text_type = "dialog" THEN <<DialogDocument(li, i, loc, sid, chr)>>
    ELSE <<>>

\* what one pass of the loop appends to documents
Emitted(li, i, loc, sid, chr) ==
    IF li.text_type = "description"
    THEN <<SceneDocument(li, i, loc, NextSceneDescriptionId(sid, li))>>
    ELSE IF li.text_type = "dialog" THEN <<DialogDocument(li, i, loc, sid, chr)>>
    ELSE <<>>

\* ------------------------------------------------------------------ inputs
\* Lines of a page as the layout extraction yields them, in the typesetting of
\* the default margins.
RawLines ==
    << <<"1">> \o Sp(7) \o <<"A">> \o Sp(2) \o <<"1">>,            \* heading at 8
       <<"A", "1">> \o Sp(7) \o <<"N">> \o Sp(2) \o <<"A", "1">>,  \* heading at 9
       Sp(32) \o <<"N">>,                                          \* cue
       Sp(32) \o <<"A", " ", "(", "V", ")">>,                      \* cue + note
       Sp(8) \o <<"a">>,                                           \* action
       Sp(9) \o <<"A">>,                                           \* action
       Sp(21) \o <<"a">>,                                          \* speech
       Sp(21) \o <<"b">>,                                          \* speech
       Sp(21) \o TagTheEnd,                                        \* boilerplate
       Sp(5) \o <<"a">>,                                           \* no margin
       <<>>,                                                       \* blank
       Sp(8),                                                      \* spaces only
       Sp(38) \o <<"(", "V", ")">>,                                \* note only
       Sp(9) \o <<"a">> >>                                         \* action at 9

RawLineSet == {RawLines[i] : i \in 1..Len(RawLines)}

\* every text of length n over the characters cs
RECURSIVE Texts(_, _)
Texts(cs, n) ==
    IF n = 0 THEN {<<>>}
    ELSE {<<ch>> \o t : ch \in cs, t \in Texts(cs, n - 1)}

ShortChars == {" ", "A", "a", "1", "(", ")"}

ShortLines == UNION {Texts(ShortChars, n) : n \in 0..MaxLineLen}

\* Lines in the typesetting of SmallConfig that are longer than MaxLineLen.
SmallLines ==
    { <<"1">> \o Sp(2) \o <<"A">> \o Sp(2) \o <<"1">>,
      <<"A", "1">> \o Sp(2) \o <<"A">> \o Sp(3) \o <<"A", "1">>,
      <<"A", "1">> \o Sp(4) \o <<"1">>,
      <<"1">> \o Sp(4) \o <<"A">> \o Sp(2) \o <<"1">>,
      Sp(2) \o <<"(", "A", ")", "A", "(", "A", ")">>,
      Sp(2) \o <<"A", "(", "A", ")", "A", "(", "A", ")", "A">>,
      Sp(3) \o <<"1", "A", "a">>,
      Sp(4) \o <<"a", " ", "A", "a", " ", "a">> }

\* ----------------------------------------------------------------- load()
\* self._parse_page_line(line_text=line_text, page_number=page_number) for the
\* lines a page can hold, on the parser load() runs on
ParsedRaw ==
    [i \in 1..Len(RawLines), pn \in 0..MaxPages |->
        ParsePageLine(DefaultConfig, RawLines[i], pn)]

\* the end_page test of parse_page with >= in the place of >
InWindow_EndExcluded(c, pn) ==
    /\ (c.start_page = NoneInt \/ pn >= c.start_page)
    /\ (c.end_page = NoneInt \/ pn < c.end_page)

\* parse_page: neither `page_number < start_page` nor `page_number > end_page`
InWindow(c, pn) ==
    /\ (c.start_page = NoneInt \/ pn >= c.start_page)
    /\ (c.end_page = NoneInt \/ pn <= c.end_page)

\* the pages of the reader: pypdf numbers them from 0
Pages == 0..(MaxPages - 1)

\* parsed_pages[p] before parse_page has been called on page p
Pending == [status |-> "pending", items |-> <<>>]

\* no page has been handed to parse_page
NoPagesYet ==
    /\ page_texts = [p \in Pages |-> <<>>]
    /\ parsed_pages = [p \in Pages |-> Pending]

\* no RAGService call is under way
RagIdle ==
    /\ rag_pc = "idle"
    /\ calls = <<>>
    /\ initialized = FALSE
    /\ rag_documents = <<>>
    /\ question = None
    /\ top_k = NoneInt
    /\ attach_documents = FALSE
    /\ retrieval_results = <<>>
    /\ result = None

\* no QdrantRetrieverService has been constructed
QdrantIdle ==
    /\ qdrant_pc = "idle"
    /\ client = [collection_exists |-> FALSE, points |-> <<>>]
    /\ vectorstore = "None"
    /\ search_results = <<>>
    /\ results = <<>>
    /\ response = None
    /\ n_calls = 0

\* no generate_response is under way
GeneratorIdle ==
    /\ gen_pc = "idle"
    /\ gen_query = <<>>
    /\ subqueries = <<>>
    /\ subquery_responses = <<>>
    /\ all_sources = {}
    /\ gen_result = None

\* the application serves no request
AppIdle ==
    /\ rag_service_cache = NoneInt
    /\ requests = <<>>
    /\ constructed = 0
    /\ index_runs = 0

\* no load_documents is under way
ChunkerIdle ==
    /\ chunk_pc = "idle"
    /\ chunk_config = [chunk_size |-> 0, overlap |-> 0]
    /\ raw_documents = <<>>
    /\ chunks = <<>>
    /\ current_chunk = None
    /\ chunk_trace = <<>>
    /\ chunk_documents = <<>>

\* the services around the loader and RAGService are at rest
ServicesIdle == QdrantIdle /\ GeneratorIdle /\ AppIdle /\ ChunkerIdle

\* load() is called on the parser MatrixDocumentLoaderService constructs
InitLoad ==
    /\ cfg = DefaultConfig
    /\ pc = "parse_page"
    /\ page_number = 0
    /\ line_items = <<>>
    /\ classified = <<>>
    /\ idx = 1
    /\ location = None
    /\ scene_description_id = None
    /\ character = None
    /\ documents = <<>>
    /\ error = "none"
    /\ line_text = <<>>
    /\ parsed = [status |-> "not called", item |-> NoItem]
    /\ NoPagesYet
    /\ RagIdle
    /\ ServicesIdle

\* `li is not None`: the record joins the list parse_page returns
AppendItem(r) == r.status = "item" /\ line_items' = Append(line_items, r.item)

\* the exception r of a call propagates
RaiseFrom(r) == r.status \notin {"ok", "item", "none"} /\ error' = r.status

\* the list comprehension over the runs completes and line_items is rebound
Rebind(r) == r.status = "ok" /\ line_items' = r.items

\* parse_page, one line of the page in its window: the record is appended
ParseLineItem ==
    /\ pc = "parse_page"
    /\ InWindow(cfg, page_number)
    /\ Len(line_items) < MaxItems
    /\ \E lt \in 1..Len(RawLines) : AppendItem(ParsedRaw[lt, page_number])
    /\ UNCHANGED <<cfg, pc, page_number, classified, idx, location,
                   scene_description_id, character, documents, error, line_text, parsed>>
    /\ UNCHANGED otherVars

\* parse_page, one line: the classifier returns None and the line is dropped
ParseLineNone ==
    /\ pc = "parse_page"
    /\ InWindow(cfg, page_number)
    /\ \E lt \in 1..Len(RawLines) : ParsedRaw[lt, page_number].status = "none"
    /\ UNCHANGED vars

\* parse_page, one line: LineItem(...) raises and the exception leaves load()
ParseLineRaises ==
    /\ pc = "parse_page"
    /\ InWindow(cfg, page_number)
    /\ \E lt \in 1..Len(RawLines) : RaiseFrom(ParsedRaw[lt, page_number])
    /\ pc' = "raised"
    /\ UNCHANGED <<cfg, page_number, line_items, classified, idx, location,
                   scene_description_id, character, documents, line_text, parsed>>
    /\ UNCHANGED otherVars

\* map(self.parse_page, reader.pages) moves on to the next page
NextPage ==
    /\ pc = "parse_page"
    /\ page_number + 1 < MaxPages
    /\ page_number' = page_number + 1
    /\ UNCHANGED <<cfg, pc, line_items, classified, idx, location,
                   scene_description_id, character, documents, error, line_text, parsed>>
    /\ UNCHANGED otherVars

\* list(flatten(parsed_pages)) is complete: the reader has no more pages
EndOfPages ==
    /\ pc = "parse_page"
    /\ pc' = "aggregate"
    /\ page_number' = NoneInt
    /\ UNCHANGED <<cfg, line_items, classified, idx, location,
                   scene_description_id, character, documents, error, line_text, parsed>>
    /\ UNCHANGED otherVars

\* groupby and the list comprehension over _agg_line_groups succeed
Aggregate ==
    /\ pc = "aggregate"
    /\ Rebind(AggResult(line_items))
    /\ classified' = line_items
    /\ pc' = "contextualize"
    /\ UNCHANGED <<cfg, page_number, idx, location, scene_description_id,
                   character, documents, error, line_text, parsed>>
    /\ UNCHANGED otherVars

\* _agg_line_groups raises inside the list comprehension: line_items is not
\* rebound and the exception leaves load()
AggregateRaises ==
    /\ pc = "aggregate"
    /\ RaiseFrom(AggResult(line_items))
    /\ classified' = line_items
    /\ pc' = "raised"
    /\ UNCHANGED <<cfg, page_number, line_items, idx, location,
                   scene_description_id, character, documents, line_text, parsed>>
    /\ UNCHANGED otherVars

\* one pass of `for idx, li in enumerate(line_items, start=1)`
ContextStep ==
    /\ pc = "contextualize"
    /\ idx <= Len(line_items)
    /\ location' = NextLocation(location, line_items[idx])
    /\ character' = NextCharacter(character, line_items[idx])
    /\ scene_description_id' = NextSceneDescriptionId(scene_description_id, line_items[idx])
    /\ documents' = documents \o Emitted(line_items[idx], idx, location,
                                         scene_description_id, character)
    /\ idx' = idx + 1
    /\ UNCHANGED <<cfg, pc, page_number, line_items, classified, error, line_text, parsed>>
    /\ UNCHANGED otherVars

\* return documents
Return ==
    /\ pc = "contextualize"
    /\ idx > Len(line_items)
    /\ pc' = "returned"
    /\ UNCHANGED <<cfg, page_number, line_items, classified, idx, location,
                   scene_description_id, character, documents, error, line_text, parsed>>
    /\ UNCHANGED otherVars

\* ------------------------------------------------ parse_page, page by page
\* parsers constructed with a page window: the default one, one that is open
\* below, and one whose window holds no page
PageConfigs ==
    { DefaultConfig,
      [DefaultConfig EXCEPT !.start_page = NoneInt, !.end_page = 1],
      [DefaultConfig EXCEPT !.start_page = 2, !.end_page = 1] }

\* the lines of RawLines the pages are made of: cue, action, speech,
\* boilerplate, spaces only
PageLines == {3, 5, 7, 9, 12}

\* page_text.split("\n"): the pages of up to n lines
PageTextsUpTo(n) == UNION {[1..k -> PageLines] : k \in 0..n}

\* the number of lines of the pages p.. read so far
RECURSIVE LinesRead(_, _)
LinesRead(pt, p) == IF p >= MaxPages THEN 0 ELSE Len(pt[p]) + LinesRead(pt, p + 1)

\* [li for li in line_items if li is not None]
RECURSIVE NotNone(_)
NotNone(all) ==
    IF all = <<>> THEN <<>>
    ELSE IF Head(all).status = "item" THEN <<Head(all).item>> \o NotNone(Tail(all))
    ELSE NotNone(Tail(all))

\* the list comprehension consumes the generator of _parse_page_line results
\* all: the records in order, or the exception of the first line that raises
PageOutcome(all) ==
    IF \A i \in 1..Len(all) : all[i].status \in {"item", "none"}
    THEN [status |-> "ok", items |-> NotNone(all)]
    ELSE [status |-> all[Least({i \in 1..Len(all) : all[i].status \notin {"item", "none"}})].status,
          items |-> <<>>]

\* parse_page(page) on the page numbered pn whose text has the lines `lines`
ParsePage(c, lines, pn) ==
    IF ~InWindow(c, pn) THEN [status |-> "ok", items |-> <<>>]
    ELSE PageOutcome([i \in 1..Len(lines) |-> ParsedRaw[lines[i], pn]])

\* parse_page moves start_page behind the page it has parsed
ParsePageSelf_SkipsSeen(c, pn) == [c EXCEPT !.start_page = pn + 1]

\* the parser instance after parse_page: the method assigns nothing to self
ParsePageSelf(c, pn) == c

\* list(flatten(parsed_pages)), the pages in the order of reader.pages
RECURSIVE Flatten(_, _)
Flatten(pp, p) == IF p >= MaxPages THEN <<>> ELSE pp[p].items \o Flatten(pp, p + 1)

\* parse_page is called on the pages of a document, in any order
InitPages ==
    /\ cfg \in PageConfigs
    /\ pc = "parse_pages"
    /\ page_number = NoneInt
    /\ line_items = <<>>
    /\ classified = <<>>
    /\ idx = 1
    /\ location = None
    /\ scene_description_id = None
    /\ character = None
    /\ documents = <<>>
    /\ error = "none"
    /\ line_text = <<>>
    /\ parsed = [status |-> "not called", item |-> NoItem]
    /\ NoPagesYet
    /\ RagIdle
    /\ ServicesIdle

\* the call on page p returns its list
PageReturns(r, p) ==
    /\ r.status = "ok"
    /\ parsed_pages' = [parsed_pages EXCEPT ![p] = r]

\* the call on page p raises
PageRaises(r, p) ==
    /\ r.status # "ok"
    /\ parsed_pages' = [parsed_pages EXCEPT ![p] = r]
    /\ error' = r.status

\* parse_page(page) returns for a page not parsed yet
ParsePageCall ==
    /\ pc = "parse_pages"
    /\ \E p \in Pages, lines \in PageTextsUpTo(MaxItems - LinesRead(page_texts, 0)) :
          /\ parsed_pages[p].status = "pending"
          /\ page_texts' = [page_texts EXCEPT ![p] = lines]
          /\ PageReturns(ParsePage(cfg, lines, p), p)
          /\ cfg' = ParsePageSelf(cfg, p)
    /\ UNCHANGED <<pc, page_number, line_items, classified, idx, location,
                   scene_description_id, character, documents, error, line_text, parsed>>
    /\ UNCHANGED <<ragVars, serviceVars>>

\* parse_page(page) raises for a page not parsed yet
ParsePageCallRaises ==
    /\ pc = "parse_pages"
    /\ \E p \in Pages, lines \in PageTextsUpTo(MaxItems - LinesRead(page_texts, 0)) :
          /\ parsed_pages[p].status = "pending"
          /\ page_texts' = [page_texts EXCEPT ![p] = lines]
          /\ PageRaises(ParsePage(cfg, lines, p), p)
          /\ cfg' = ParsePageSelf(cfg, p)
    /\ pc' = "raised"
    /\ UNCHANGED <<page_number, line_items, classified, idx, location,
                   scene_description_id, character, documents, line_text, parsed>>
    /\ UNCHANGED <<ragVars, serviceVars>>

\* every page has been parsed: line_items = list(flatten(parsed_pages))
Reassemble ==
    /\ pc = "parse_pages"
    /\ \A p \in Pages : parsed_pages[p].status = "ok"
    /\ line_items' = Flatten(parsed_pages, 0)
    /\ pc' = "aggregate"
    /\ UNCHANGED <<cfg, page_number, classified, idx, location,
                   scene_description_id, character, documents, error, line_text, parsed>>
    /\ UNCHANGED otherVars

NextPages ==
    \/ ParsePageCall
    \/ ParsePageCallRaises
    \/ Reassemble
    \/ Aggregate
    \/ AggregateRaises
    \/ ContextStep
    \/ Return

SpecPages == InitPages /\ [][NextPages]_vars

\* ------------------------------------------------- the classifier on a line
\* one call _parse_page_line(line_text, page_number) on a parser instance
InitClassify ==
    /\ \/ cfg = SmallConfig /\ line_text \in ShortLines \cup SmallLines
       \/ cfg = DefaultConfig /\ line_text \in RawLineSet
    /\ pc = "classify"
    /\ page_number \in {0, 1}
    /\ line_items = <<>>
    /\ classified = <<>>
    /\ idx = 1
    /\ location = None
    /\ scene_description_id = None
    /\ character = None
    /\ documents = <<>>
    /\ error = "none"
    /\ parsed = [status |-> "not called", item |-> NoItem]
    /\ NoPagesYet
    /\ RagIdle
    /\ ServicesIdle

ClassifyReturns(r) == r.status \in {"item", "none"} /\ parsed' = r

ClassifyThrows(r) == r.status \notin {"item", "none"} /\ parsed' = r /\ error' = r.status

\* the call returns a LineItem or None
Classify ==
    /\ pc = "classify"
    /\ ClassifyReturns(ParsePageLine(cfg, line_text, page_number))
    /\ pc' = "classified"
    /\ UNCHANGED <<cfg, page_number, line_items, classified, idx, location,
                   scene_description_id, character, documents, error, line_text>>
    /\ UNCHANGED otherVars

\* the call raises
ClassifyRaises ==
    /\ pc = "classify"
    /\ ClassifyThrows(ParsePageLine(cfg, line_text, page_number))
    /\ pc' = "raised"
    /\ UNCHANGED <<cfg, page_number, line_items, classified, idx, location,
                   scene_description_id, character, documents, line_text>>
    /\ UNCHANGED otherVars

Init == InitLoad \/ InitClassify

Next ==
    \/ ParseLineItem
    \/ ParseLineNone
    \/ ParseLineRaises
    \/ NextPage
    \/ EndOfPages
    \/ Aggregate
    \/ AggregateRaises
    \/ ContextStep
    \/ Return
    \/ Classify
    \/ ClassifyRaises

Spec == Init /\ [][Next]_vars

\* ------------------------------------------------------------- RAGService
\* Document(id=..., page_content=...) values the collaborators hand around
Docs ==
    { [id |-> "doc1", page_content |-> "This is a sample document for testing"],
      [id |-> "doc2", page_content |-> "Another document with different content"] }

\* List[Document] of up to MaxDocs documents
DocLists == UNION {[1..n -> Docs] : n \in 0..MaxDocs}

\* List[RetrievalResult]: a document, its score in percent and its rank each
RetrievalLists ==
    {[i \in 1..Len(ds) |-> [document |-> ds[i], score |-> 100 - 10 * i, rank |-> i]] :
        ds \in DocLists}

Questions == {"test query", "who is neo?"}

Answers == {"This is a test response", "I cannot answer"}

\* the QueryResult generate_response builds: retrieved_documents is not
\* passed and takes its default, the empty list
QueryResult(query, answer) ==
    [query |-> query, answer |-> answer, retrieved_documents |-> <<>>]

\* one call on a collaborator, with what it returned
Call(op, args, returned) == [op |-> op, args |-> args, returned |-> returned]

\* index() goes on to load although the retriever is initialized
AfterIsInitialized_AlwaysLoads(b) == "load_documents"

\* index(): `if self.retriever.is_initialized(): return`
AfterIsInitialized(b) == IF b THEN "index returned" ELSE "load_documents"

\* query(): [rr.document for rr in retrieval_results]
RetrievedDocs(rr) == [i \in 1..Len(rr) |-> rr[i].document]

\* the retrieval results are attached whatever attach_documents is
Attached_Always(res, rr, attach) == [res EXCEPT !.retrieved_documents = rr]

\* query(): `if attach_documents: result.retrieved_documents = retrieval_results`
Attached(res, rr, attach) ==
    IF attach THEN [res EXCEPT !.retrieved_documents = rr] ELSE res

\* the loader is at rest while the service runs
LoaderIdle ==
    /\ cfg = DefaultConfig
    /\ pc = "idle"
    /\ page_number = NoneInt
    /\ line_items = <<>>
    /\ classified = <<>>
    /\ idx = 1
    /\ location = None
    /\ scene_description_id = None
    /\ character = None
    /\ documents = <<>>
    /\ error = "none"
    /\ line_text = <<>>
    /\ parsed = [status |-> "not called", item |-> NoItem]
    /\ NoPagesYet

loaderVars == <<cfg, pc, page_number, line_items, classified, idx, location,
                scene_description_id, character, documents, error, line_text, parsed,
                pageVars>>

\* one call of index() or of query(question, top_k, attach_documents) on a
\* RAGService over a loader, a retriever and a generator
InitRag ==
    /\ LoaderIdle
    /\ ServicesIdle
    /\ calls = <<>>
    /\ initialized \in BOOLEAN
    /\ rag_documents = <<>>
    /\ retrieval_results = <<>>
    /\ result = None
    /\ \/ /\ rag_pc = "index"
          /\ question = None
          /\ top_k = NoneInt
          /\ attach_documents = FALSE
       \/ /\ rag_pc = "query"
          /\ question \in Questions
          /\ top_k \in 1..MaxTopK
          /\ attach_documents \in BOOLEAN

\* index(): self.retriever.is_initialized()
IsInitialized ==
    /\ rag_pc = "index"
    /\ calls' = Append(calls, Call("is_initialized", <<>>, initialized))
    /\ rag_pc' = AfterIsInitialized(initialized)
    /\ UNCHANGED <<initialized, rag_documents, question, top_k, attach_documents,
                   retrieval_results, result>>
    /\ UNCHANGED <<loaderVars, serviceVars>>

\* index(): documents = self.loader.load_documents()
LoadDocuments ==
    /\ rag_pc = "load_documents"
    /\ \E ds \in DocLists :
          /\ rag_documents' = ds
          /\ calls' = Append(calls, Call("load_documents", <<>>, ds))
    /\ rag_pc' = "index_documents"
    /\ UNCHANGED <<initialized, question, top_k, attach_documents,
                   retrieval_results, result>>
    /\ UNCHANGED <<loaderVars, serviceVars>>

\* index(): self.retriever.index_documents(documents), then the method ends
IndexDocuments ==
    /\ rag_pc = "index_documents"
    /\ calls' = Append(calls, Call("index_documents", <<rag_documents>>, None))
    /\ rag_pc' = "index returned"
    /\ UNCHANGED <<initialized, rag_documents, question, top_k, attach_documents,
                   retrieval_results, result>>
    /\ UNCHANGED <<loaderVars, serviceVars>>

\* query(): retrieval_results = self.retriever.retrieve(question, top_k=top_k)
Retrieve ==
    /\ rag_pc = "query"
    /\ \E rr \in RetrievalLists :
          /\ retrieval_results' = rr
          /\ calls' = Append(calls, Call("retrieve", <<question, top_k>>, rr))
    /\ rag_pc' = "generate_response"
    /\ UNCHANGED <<initialized, rag_documents, question, top_k, attach_documents, result>>
    /\ UNCHANGED <<loaderVars, serviceVars>>

\* query(): result = await self.generator.generate_response(question, retrieved_docs)
GenerateResponse ==
    /\ rag_pc = "generate_response"
    /\ \E answer \in Answers :
          /\ result' = QueryResult(question, answer)
          /\ calls' = Append(calls, Call("generate_response",
                                         <<question, RetrievedDocs(retrieval_results)>>,
                                         QueryResult(question, answer)))
    /\ rag_pc' = "attach"
    /\ UNCHANGED <<initialized, rag_documents, question, top_k, attach_documents,
                   retrieval_results>>
    /\ UNCHANGED <<loaderVars, serviceVars>>

\* query(): the retrieval results are attached if asked for; return result
ReturnResult ==
    /\ rag_pc = "attach"
    /\ result' = Attached(result, retrieval_results, attach_documents)
    /\ rag_pc' = "query returned"
    /\ UNCHANGED <<calls, initialized, rag_documents, question, top_k, attach_documents,
                   retrieval_results>>
    /\ UNCHANGED <<loaderVars, serviceVars>>

\* the collaborator about to be called raises: the exception leaves the method
CallRaises ==
    /\ rag_pc \in {"index", "load_documents", "index_documents", "query",
                   "generate_response"}
    /\ calls' = Append(calls, Call(IF rag_pc = "index" THEN "is_initialized"
                                   ELSE IF rag_pc = "query" THEN "retrieve"
                                   ELSE rag_pc, <<>>, "raised"))
    /\ rag_pc' = "raised"
    /\ UNCHANGED <<initialized, rag_documents, question, top_k, attach_documents,
                   retrieval_results, result>>
    /\ UNCHANGED <<loaderVars, serviceVars>>

NextRag ==
    \/ IsInitialized
    \/ LoadDocuments
    \/ IndexDocuments
    \/ Retrieve
    \/ GenerateResponse
    \/ ReturnResult
    \/ CallRaises

SpecRag == InitRag /\ [][NextRag]_vars

\* ------------------------------------------------- QdrantRetrieverService
MaxCalls == 2       \* calls made on one retriever

\* f"{i}" for the small integers the model meets
DigitStr(i) == <<"0", "1", "2", "3", "4", "5", "6", "7", "8", "9">>[i + 1]

\* the documents the loader hands over: the first n of a fixed list
SampleDocuments ==
    [i \in 1..(MaxDocs + 1) |->
        [id |-> <<"doc", DigitStr(i)>>, page_content |-> <<"content", DigitStr(i)>>]]

LoadedLists == {SubSeq(SampleDocuments, 1, n) : n \in 0..MaxDocs}

\* the (doc, score) pairs similarity_search_with_score hands back: the
\* metadata of a hit carries "_id" or not, next to other keys or alone
SearchHits ==
    { [page_content |-> "Test content",
       metadata |-> ("_id" :> <<"doc1">> @@ "source" :> <<"test">>),
       score |-> 95],
      [page_content |-> "Other content",
       metadata |-> ("source" :> <<"test">>),
       score |-> 80] }

\* what a search for the k nearest documents can return
SearchResults(k) == UNION {[1..n -> SearchHits] : n \in 0..k}

\* _collection_exists()
CollectionExists(c) == c.collection_exists

\* is_initialized() answers False whatever the collection holds
QdrantInitialized_Never(c) == FALSE

\* is_initialized(): the collection exists and points_count > 0
QdrantInitialized(c) == CollectionExists(c) /\ Len(c.points) > 0

\* __init__: the vector store is set up only over an existing collection
Constructed(c) == IF CollectionExists(c) THEN "QdrantVectorStore" ELSE "None"

\* the collection is created whether it exists or not
CreateCollection_Always(c) == <<Call("create_collection", <<>>, None)>>

\* _create_collection(): the calls it makes on the client
CreateCollection(c) ==
    IF CollectionExists(c) THEN <<>> ELSE <<Call("create_collection", <<>>, None)>>

\* index_documents(): `if self.vectorstore is None: self._init_vector_store()`
InitVectorStore(vs) ==
    IF vs = "None" THEN <<Call("QdrantVectorStore", <<>>, None)>> ELSE <<>>

\* index_documents(documents): the calls made on the client and the store
IndexDocumentsCalls(c, vs, ds) ==
    IF ds = <<>> THEN <<>>
    ELSE CreateCollection(c) \o InitVectorStore(vs)
         \o <<Call("add_documents", <<ds>>, None)>>

\* index_documents(documents): the collection afterwards
IndexDocumentsClient(c, ds) ==
    IF ds = <<>> THEN c
    ELSE [collection_exists |-> TRUE, points |-> c.points \o ds]

\* index_documents(documents): self.vectorstore afterwards
IndexDocumentsStore(vs, ds) == IF ds = <<>> THEN vs ELSE "QdrantVectorStore"

\* the fallback id counts from one
ResultId_FromRank(i) == <<"result-", DigitStr(i + 1)>>

\* retrieve(): f"result-{i}"
ResultId(i) == <<"result-", DigitStr(i)>>

\* retrieve(): the RetrievalResult built from the i-th pair, i counted from 0
RetrievalResultOf(i, hit) ==
    [document |->
        [id |-> IF "_id" \in DOMAIN hit.metadata THEN hit.metadata["_id"]
                ELSE ResultId(i),
         page_content |-> hit.page_content,
         metadata |-> [k \in DOMAIN hit.metadata \ {"_id"} |-> hit.metadata[k]]],
     score |-> hit.score,
     rank |-> i + 1]

\* retrieve(): the loop over enumerate(search_results)
RetrieveResults(hits) == [j \in 1..Len(hits) |-> RetrievalResultOf(j - 1, hits[j])]

\* the search is made although the retriever is not initialized
RetrieveRaises_Never(c) == FALSE

\* retrieve(): `if not self.is_initialized(): raise ValueError(...)`
RetrieveRaises(c) == ~QdrantInitialized(c)

\* retrieve(query, top_k): the calls it makes, given what the search returns
RetrieveCalls(c, query, k, hits) ==
    IF RetrieveRaises(c) THEN <<Call("retrieve", <<query, k>>, "ValueError")>>
    ELSE <<Call("retrieve", <<query, k>>, "results"),
           Call("similarity_search_with_score", <<query, k>>, hits)>>

\* matrix_query: `except Exception as e: raise HTTPException(status_code=500, ...)`
HttpResponse(raised, body) ==
    IF raised THEN [status_code |-> 500, body |-> None]
    ELSE [status_code |-> 200, body |-> body]

\* everything of RAGService but the log of calls
ragQuiet == <<rag_pc, initialized, rag_documents, question, top_k, attach_documents,
              retrieval_results, result>>

\* what a call on the retriever leaves alone
besideQdrant == <<loaderVars, ragQuiet, genVars, appVars, chunkVars>>

\* a QdrantRetrieverService is constructed over a store that holds no
\* collection, an empty collection or a collection of documents
InitQdrant ==
    /\ LoaderIdle
    /\ RagIdle
    /\ GeneratorIdle
    /\ AppIdle
    /\ ChunkerIdle
    /\ qdrant_pc = "ready"
    /\ \/ client = [collection_exists |-> FALSE, points |-> <<>>]
       \/ \E ds \in LoadedLists : client = [collection_exists |-> TRUE, points |-> ds]
    /\ vectorstore = Constructed(client)
    /\ search_results = <<>>
    /\ results = <<>>
    /\ response = None
    /\ n_calls = 0

\* retriever.index_documents(documents) is called
QdrantIndexDocuments ==
    /\ qdrant_pc = "ready"
    /\ n_calls < MaxCalls
    /\ \E ds \in LoadedLists :
          /\ calls' = calls \o <<Call("index_documents", <<ds>>, None)>>
                            \o IndexDocumentsCalls(client, vectorstore, ds)
          /\ client' = IndexDocumentsClient(client, ds)
          /\ vectorstore' = IndexDocumentsStore(vectorstore, ds)
    /\ n_calls' = n_calls + 1
    /\ UNCHANGED <<qdrant_pc, search_results, results, response>>
    /\ UNCHANGED besideQdrant

\* RAGService.index() over this retriever finds it initialized and returns
QdrantIndexReturns ==
    /\ qdrant_pc = "ready"
    /\ n_calls < MaxCalls
    /\ QdrantInitialized(client)
    /\ calls' = calls \o <<Call("index", <<>>, None),
                           Call("is_initialized", <<>>, TRUE)>>
    /\ n_calls' = n_calls + 1
    /\ UNCHANGED <<qdrant_pc, client, vectorstore, search_results, results, response>>
    /\ UNCHANGED besideQdrant

\* RAGService.index() over this retriever loads the documents and indexes them
QdrantIndexLoads ==
    /\ qdrant_pc = "ready"
    /\ n_calls < MaxCalls
    /\ ~QdrantInitialized(client)
    /\ \E ds \in LoadedLists :
          /\ calls' = calls \o <<Call("index", <<>>, None),
                                 Call("is_initialized", <<>>, FALSE),
                                 Call("load_documents", <<>>, ds),
                                 Call("index_documents", <<ds>>, None)>>
                            \o IndexDocumentsCalls(client, vectorstore, ds)
          /\ client' = IndexDocumentsClient(client, ds)
          /\ vectorstore' = IndexDocumentsStore(vectorstore, ds)
    /\ n_calls' = n_calls + 1
    /\ UNCHANGED <<qdrant_pc, search_results, results, response>>
    /\ UNCHANGED besideQdrant

\* retriever.retrieve(query, top_k) is called. It leaves the store as it
\* is, so a run is followed up to its first retrieval
QdrantRetrieve ==
    /\ qdrant_pc = "ready"
    /\ \E query \in Questions, k \in 1..MaxTopK : \E hits \in SearchResults(k) :
          /\ calls' = calls \o RetrieveCalls(client, query, k, hits)
          /\ search_results' = IF RetrieveRaises(client) THEN <<>> ELSE hits
          /\ results' = IF RetrieveRaises(client) THEN <<>> ELSE RetrieveResults(hits)
    /\ qdrant_pc' = IF RetrieveRaises(client) THEN "raised" ELSE "returned"
    /\ UNCHANGED <<client, vectorstore, response, n_calls>>
    /\ UNCHANGED besideQdrant

\* POST /agent/query: rag_service.query(question, top_k, attach_documents)
\* retrieves, generates and answers 200, or an exception is turned into 500
MatrixQuery ==
    /\ qdrant_pc = "ready"
    /\ \E query \in Questions, hits \in SearchResults(MaxTopK),
          answer \in Answers \cup {"raised"}, show_context \in BOOLEAN :
          LET failed == RetrieveRaises(client)
              rr == RetrieveResults(hits)
          IN  /\ calls' = calls \o <<Call("matrix_query", <<query, show_context>>, None)>>
                                \o RetrieveCalls(client, query, MaxTopK, hits)
                                \o (IF failed THEN <<>>
                                    ELSE <<Call("generate_response", <<query>>, answer)>>)
              /\ search_results' = IF failed THEN <<>> ELSE hits
              /\ results' = IF failed THEN <<>> ELSE rr
              /\ response' = HttpResponse(failed \/ answer = "raised",
                                          Attached(QueryResult(query, answer), rr,
                                                   show_context))
    /\ qdrant_pc' = "responded"
    /\ UNCHANGED <<client, vectorstore, n_calls>>
    /\ UNCHANGED besideQdrant

NextQdrant ==
    \/ QdrantIndexDocuments
    \/ QdrantIndexReturns
    \/ QdrantIndexLoads
    \/ QdrantRetrieve
    \/ MatrixQuery

SpecQdrant == InitQdrant /\ [][NextQdrant]_vars

\* -------------------------------------------------- MatrixGeneratorService
MaxSubqueries == 2  \* subqueries a decomposition returns

\* the letters in alphabetical order
LowerLetters ==
    <<"a", "b", "c", "d", "e", "f", "g", "h", "i", "j", "k", "l", "m", "n", "o", "p", "q", "r", "s", "t", "u", "v", "w", "x", "y", "z">>
UpperLetters ==
    <<"A", "B", "C", "D", "E", "F", "G", "H", "I", "J", "K", "L", "M", "N", "O", "P", "Q", "R", "S", "T", "U", "V", "W", "X", "Y", "Z">>

\* the queries are compared as they are written
Lower_AsWritten(s) == s

\* str.lower()
Lower(s) ==
    [i \in 1..Len(s) |->
        IF s[i] \in UpperChars
        THEN LowerLetters[CHOOSE n \in 1..26 : UpperLetters[n] = s[i]]
        ELSE s[i]]

\* _is_complex_query: complex_indicators
ComplexIndicators ==
    { <<"h", "o", "w", " ", "m", "a", "n", "y", " ", "t", "i", "m", "e", "s">>,
      <<"w", "h", "y", " ", "a", "r", "e">>,
      <<"d", "e", "s", "c", "r", "i", "b", "e">>,
      <<"p", "e", "r", "s", "o", "n", "a", "l", "i", "t", "y">>,
      <<"o", "f", "f", "e", "r">>,
      <<"e", "x", "c", "h", "a", "n", "g", "e">>,
      <<"p", "u", "r", "p", "o", "s", "e">>,
      <<"w", "h", "o", " ", "c", "r", "e", "a", "t", "e", "d">>,
      <<"s", "i", "m", "i", "l", "a", "r", " ", "t", "o">>,
      <<"a", "n", "d", " ", "w", "h", "o">>,
      <<"w", "h", "y", " ", "d", "i", "d">>,
      <<"w", "h", "a", "t", " ", "i", "s", " ", "t", "h", "e", " ", "r", "e", "l", "a", "t", "i", "o", "n", "s", "h", "i", "p">> }

\* query.count("?")
RECURSIVE QuestionMarks(_)
QuestionMarks(s) ==
    IF s = <<>> THEN 0
    ELSE (IF Head(s) = "?" THEN 1 ELSE 0) + QuestionMarks(Tail(s))

\* _is_complex_query(query)
IsComplexQuery(q) ==
    \/ \E indicator \in ComplexIndicators : IsSubstring(indicator, Lower(q))
    \/ QuestionMarks(q) > 1

\* the queries put to the generator
GenQueries ==
    { <<"D", "e", "s", "c", "r", "i", "b", "e", " ", "N", "e", "o", ".">>,
      <<"W", "h", "o", " ", "i", "s", " ", "N", "e", "o", "?">>,
      <<"I", "s", " ", "i", "t", " ", "r", "e", "a", "l", "?", " ", "I", "s", " ", "i", "t", "?">>,
      <<"W", "h", "y", " ", "a", "r", "e", " ", "h", "u", "m", "a", "n", "s", " ", "s", "i", "m", "i", "l", "a", "r", " ", "t", "o", " ", "a", " ", "v", "i", "r", "u", "s", "?", " ", "A", "n", "d", " ", "w", "h", "o", " ", "s", "a", "y", "s", " ", "t", "h", "a", "t", "?">>,
      <<"W", "h", "a", "t", " ", "d", "i", "d", " ", "h", "e", " ", "p", "r", "o", "f", "f", "e", "r", "?">>,
      <<"W", "H", "O", " ", "C", "R", "E", "A", "T", "E", "D", " ", "i", "t">>,
      <<>>,
      <<"w", "h", "y", "?">>,
      <<"W", "h", "e", "r", "e", "?", " ", "W", "h", "e", "n">> }

\* the subqueries a decomposition returns: the first n of a fixed list
SubqueryTexts ==
    [i \in 1..(MaxSubqueries + 1) |-> <<"s", "u", "b", DigitStr(i), "?">>]

Decompositions == {SubSeq(SubqueryTexts, 1, n) : n \in 0..MaxSubqueries}

\* an agent run: it raises, or hands back an output with an answer, a
\* confidence in percent and the ids of the sources used
AgentRaised ==
    [raised |-> TRUE, answer |-> <<"boom">>, confidence |-> 0, sources_used |-> {}]

ResponseOutputs ==
    { [raised |-> FALSE, answer |-> <<"a">>, confidence |-> 90, sources_used |-> {"doc1"}],
      [raised |-> FALSE, answer |-> <<"b">>, confidence |-> 90, sources_used |-> {"doc2"}],
      [raised |-> FALSE, answer |-> <<"c">>, confidence |-> 50,
       sources_used |-> {"doc1", "doc3"}],
      [raised |-> FALSE, answer |-> <<"d">>, confidence |-> 0, sources_used |-> {}] }

AdvancedOutputs ==
    { [raised |-> FALSE, answer |-> <<"final">>, confidence |-> 80, sources_used |-> {}] }

\* the QueryResult the generator builds; sources_used is kept as the set of
\* its ids, retrieved_documents and reasoning are left out
GeneratedResult(query, answer, confidence, sources_used) ==
    [query |-> query, answer |-> answer, confidence |-> confidence,
     sources_used |-> sources_used]

\* _handle_simple_query(query, context), given how response_agent.run ends
HandleSimpleQuery(query, out) ==
    IF out.raised
    THEN GeneratedResult(query,
                         <<"I encountered an error while processing your query: ">>
                            \o out.answer, 0, {})
    ELSE GeneratedResult(query, out.answer, out.confidence, out.sources_used)

\* _handle_complex_query: the except branch
ComplexError(query, message) ==
    GeneratedResult(query,
                    <<"I encountered an error while processing your complex query: ">>
                       \o message, 0, {})

\* SubQueryResponse(subquery=..., answer=..., confidence=..., sources_used=...)
SubQueryResponse(subquery, res) ==
    [subquery |-> subquery, answer |-> res.answer, confidence |-> res.confidence,
     sources_used |-> res.sources_used]

\* max(subquery_responses, key=lambda x: x.confidence): the first response
\* of the largest confidence
BestSubquery(rs) ==
    rs[CHOOSE i \in 1..Len(rs) :
          /\ \A j \in 1..Len(rs) : rs[j].confidence <= rs[i].confidence
          /\ \A j \in 1..(i - 1) : rs[j].confidence < rs[i].confidence]

\* _synthesize_final_answer: the except branch over at least one response
Fallback(query, rs, sources) ==
    GeneratedResult(query, <<"Based on partial analysis: ">> \o BestSubquery(rs).answer,
                    (BestSubquery(rs).confidence * 8) \div 10, sources)

\* _synthesize_final_answer inside _handle_complex_query's try, given how
\* advanced_agent.run ends: max() of no responses raises ValueError in the
\* except branch, and _handle_complex_query catches it
SynthesizeFinalAnswer(query, rs, sources, out) ==
    IF ~out.raised THEN GeneratedResult(query, out.answer, out.confidence, sources)
    ELSE IF rs = <<>> THEN ComplexError(query, <<"max() arg is an empty sequence">>)
    ELSE Fallback(query, rs, sources)

\* what a generate_response leaves alone
besideGenerator == <<loaderVars, ragQuiet, qdrantVars, appVars, chunkVars>>

\* generate_response(query, context) is called
InitGenerator ==
    /\ LoaderIdle
    /\ RagIdle
    /\ QdrantIdle
    /\ AppIdle
    /\ ChunkerIdle
    /\ gen_pc = "generate_response"
    /\ gen_query \in GenQueries
    /\ subqueries = <<>>
    /\ subquery_responses = <<>>
    /\ all_sources = {}
    /\ gen_result = None

\* generate_response: `if self._is_complex_query(query)`
Dispatch ==
    /\ gen_pc = "generate_response"
    /\ gen_pc' = IF IsComplexQuery(gen_query) THEN "decompose" ELSE "simple"
    /\ UNCHANGED <<gen_query, subqueries, subquery_responses, all_sources, gen_result, calls>>
    /\ UNCHANGED besideGenerator

\* generate_response: return await self._handle_simple_query(query, context)
HandleSimple ==
    /\ gen_pc = "simple"
    /\ \E out \in ResponseOutputs \cup {AgentRaised} :
          /\ calls' = Append(calls, Call("response_agent", <<gen_query>>, out))
          /\ gen_result' = HandleSimpleQuery(gen_query, out)
    /\ gen_pc' = "returned"
    /\ UNCHANGED <<gen_query, subqueries, subquery_responses, all_sources>>
    /\ UNCHANGED besideGenerator

\* _handle_complex_query: decomposition = await self._decompose_query(query)
Decompose ==
    /\ gen_pc = "decompose"
    /\ \E sq \in Decompositions :
          /\ calls' = Append(calls, Call("decomposition_agent", <<gen_query>>,
                                         [raised |-> FALSE, subqueries |-> sq]))
          /\ subqueries' = sq
          /\ gen_pc' = IF sq = <<>> THEN "synthesize" ELSE "subquery"
    /\ UNCHANGED <<gen_query, subquery_responses, all_sources, gen_result>>
    /\ UNCHANGED besideGenerator

\* _handle_complex_query: the decomposition agent raises
DecomposeRaises ==
    /\ gen_pc = "decompose"
    /\ calls' = Append(calls, Call("decomposition_agent", <<gen_query>>,
                                   [raised |-> TRUE, subqueries |-> <<>>]))
    /\ gen_result' = ComplexError(gen_query, AgentRaised.answer)
    /\ gen_pc' = "returned"
    /\ UNCHANGED <<gen_query, subqueries, subquery_responses, all_sources>>
    /\ UNCHANGED besideGenerator

\* _handle_complex_query: one turn of `for subquery in decomposition.subqueries`
AnswerSubquery ==
    /\ gen_pc = "subquery"
    /\ \E out \in ResponseOutputs \cup {AgentRaised} :
          LET subquery == subqueries[Len(subquery_responses) + 1]
              subquery_result == HandleSimpleQuery(subquery, out)
          IN  /\ calls' = Append(calls, Call("response_agent", <<subquery>>, out))
              /\ subquery_responses' = Append(subquery_responses,
                                              SubQueryResponse(subquery, subquery_result))
              /\ all_sources' = all_sources \cup subquery_result.sources_used
    /\ gen_pc' = IF Len(subquery_responses) + 1 = Len(subqueries) THEN "synthesize"
                 ELSE "subquery"
    /\ UNCHANGED <<gen_query, subqueries, gen_result>>
    /\ UNCHANGED besideGenerator

\* _handle_complex_query: return await self._synthesize_final_answer(...)
Synthesize ==
    /\ gen_pc = "synthesize"
    /\ \E out \in AdvancedOutputs \cup {AgentRaised} :
          /\ calls' = Append(calls, Call("advanced_agent", <<gen_query>>, out))
          /\ gen_result' = SynthesizeFinalAnswer(gen_query, subquery_responses,
                                                 all_sources, out)
    /\ gen_pc' = "returned"
    /\ UNCHANGED <<gen_query, subqueries, subquery_responses, all_sources>>
    /\ UNCHANGED besideGenerator

NextGenerator ==
    \/ Dispatch
    \/ HandleSimple
    \/ Decompose
    \/ DecomposeRaises
    \/ AnswerSubquery
    \/ Synthesize

SpecGenerator == InitGenerator /\ [][NextGenerator]_vars

\* ------------------------------------------------------------ agent_router
MaxRequests == 3    \* requests the application receives

\* the requests, by their number
Requests == 1..MaxRequests

\* a request that has not resolved its dependencies yet
Arrived == [pc |-> "get_rag_service", rag_service |-> NoneInt]

\* lru_cache: the cached instance is handed out, if there is one
CacheHit(cache) == cache # NoneInt

\* lru_cache: a result is stored unless the key was stored during the call
CacheAfterCall(cache, instance) == IF cache = NoneInt THEN instance ELSE cache

\* what a request leaves alone
besideApp == <<loaderVars, ragVars, qdrantVars, genVars, chunkVars>>

\* the application starts: nothing is cached and the requests have arrived
InitApp ==
    /\ LoaderIdle
    /\ RagIdle
    /\ QdrantIdle
    /\ GeneratorIdle
    /\ ChunkerIdle
    /\ rag_service_cache = NoneInt
    /\ requests = [r \in Requests |-> Arrived]
    /\ constructed = 0
    /\ index_runs = 0

\* Depends(get_rag_service): the wrapper of lru_cache finds the instance
ResolveCached(r) ==
    /\ requests[r].pc = "get_rag_service"
    /\ CacheHit(rag_service_cache)
    /\ requests' = [requests EXCEPT ![r] = [pc |-> "matrix_query",
                                           rag_service |-> rag_service_cache]]
    /\ UNCHANGED <<rag_service_cache, constructed, index_runs>>
    /\ UNCHANGED besideApp

\* Depends(get_rag_service): the wrapper finds nothing and calls the function
\* in a worker thread, without holding a lock
ResolveMiss(r) ==
    /\ requests[r].pc = "get_rag_service"
    /\ ~CacheHit(rag_service_cache)
    /\ requests' = [requests EXCEPT ![r].pc = "construct"]
    /\ UNCHANGED <<rag_service_cache, constructed, index_runs>>
    /\ UNCHANGED besideApp

\* get_rag_service: the three services and the RAGService are constructed
Construct(r) ==
    /\ requests[r].pc = "construct"
    /\ constructed' = constructed + 1
    /\ requests' = [requests EXCEPT ![r] = [pc |-> "index",
                                           rag_service |-> constructed + 1]]
    /\ UNCHANGED <<rag_service_cache, index_runs>>
    /\ UNCHANGED besideApp

\* get_rag_service: rag_service.index()
IndexService(r) ==
    /\ requests[r].pc = "index"
    /\ index_runs' = index_runs + 1
    /\ requests' = [requests EXCEPT ![r].pc = "return"]
    /\ UNCHANGED <<rag_service_cache, constructed>>
    /\ UNCHANGED besideApp

\* get_rag_service returns: the wrapper stores the instance and hands it on
StoreResult(r) ==
    /\ requests[r].pc = "return"
    /\ rag_service_cache' = CacheAfterCall(rag_service_cache, requests[r].rag_service)
    /\ requests' = [requests EXCEPT ![r].pc = "matrix_query"]
    /\ UNCHANGED <<constructed, index_runs>>
    /\ UNCHANGED besideApp

\* matrix_query: the request is served by the instance it was given
Respond(r) ==
    /\ requests[r].pc = "matrix_query"
    /\ requests' = [requests EXCEPT ![r].pc = "responded"]
    /\ UNCHANGED <<rag_service_cache, constructed, index_runs>>
    /\ UNCHANGED besideApp

NextApp ==
    \/ \E r \in Requests : ResolveCached(r)
    \/ \E r \in Requests : ResolveMiss(r)
    \/ \E r \in Requests : Construct(r)
    \/ \E r \in Requests : IndexService(r)
    \/ \E r \in Requests : StoreResult(r)
    \/ \E r \in Requests : Respond(r)

SpecApp == InitApp /\ [][NextApp]_vars

\* --------------------------------------------- MatrixDocumentLoaderService
MaxBaseDocs == 3    \* base documents the parser hands to the chunker

\* MatrixDocumentLoaderService(chunk_size=..., overlap=...), at the scale of
\* the texts below
ChunkConfigs ==
    { [chunk_size |-> 16, overlap |-> 6],
      [chunk_size |-> 5, overlap |-> 4] }

\* the texts of the base documents: stripped, as load() leaves them
BaseTexts ==
    { <<"a">>, <<"a", ".", " ", "b">>, <<"a", ".">> }

BaseKinds == {"scene", "dialog before any cue", "dialog"}

\* the i-th document of load(): a scene description under a heading, a
\* dialog met before any heading or cue, or a dialog after both
BaseDocument(kind, text, i) ==
    IF kind = "scene"
    THEN SceneDocument([text |-> text, text_type |-> "description", page_number |-> 1],
                       i, <<"L">>, JoblibHash(text))
    ELSE IF kind = "dialog before any cue"
    THEN DialogDocument([text |-> text, text_type |-> "dialog", page_number |-> 1],
                        i, None, None, None)
    ELSE DialogDocument([text |-> text, text_type |-> "dialog", page_number |-> 2],
                        i, <<"L">>, JoblibHash(<<"a">>), <<"N">>)

\* the lists self.loader.load() returns
BaseDocLists ==
    UNION { {[i \in 1..n |-> BaseDocument(f[i][1], f[i][2], i)] :
                f \in [1..n -> BaseKinds \X BaseTexts]} : n \in 0..MaxBaseDocs }

\* the characters \s matches
Whitespace == {" ", "\n"}

\* '\n\n'
Paragraph == <<"\n", "\n">>

\* doc.metadata.get(key, default): every key of the record but text is one
\* of the metadata
MetadataGet(doc, key, default) ==
    IF key \in DOMAIN doc \ {"text"} THEN doc[key] ELSE default

\* f"{value}" of a text or of None
StrOf(value) == IF value = None THEN <<"N", "o", "n", "e">> ELSE value

\* _format_document_content(doc)
FormatDocumentContent(doc) ==
    IF MetadataGet(doc, "text_type", "unknown") = "dialog"
    THEN StrOf(MetadataGet(doc, "character", <<"U", "N", "K", "N", "O", "W", "N">>))
         \o <<":", " ">> \o doc.text
    ELSE IF MetadataGet(doc, "text_type", "unknown") = "scene_description"
    THEN <<"[", "S", "C", "E", "N", "E", "]", " ">> \o doc.text
    ELSE doc.text

\* length of the run of \s that starts at position from
SpaceRun(s, from) ==
    CHOOSE n \in 0..(Len(s) - from + 1) :
        /\ \A i \in from..(from + n - 1) : s[i] \in Whitespace
        /\ (from + n > Len(s) \/ s[from + n] \notin Whitespace)

\* re.search(r'[.!?]\s+', s): the end of the first match, 0 without a match
SentenceMatchEnd(s) ==
    LET starts == {i \in 1..(Len(s) - 1) :
                      s[i] \in {".", "!", "?"} /\ s[i + 1] \in Whitespace}
    IN  IF starts = {} THEN 0 ELSE Least(starts) + SpaceRun(s, Least(starts) + 1)

\* re.search(r'\n\n', s): the end of the first match, 0 without a match
ParagraphMatchEnd(s) ==
    LET starts == {i \in 1..(Len(s) - 1) : SubSeq(s, i, i + 1) = Paragraph}
    IN  IF starts = {} THEN 0 ELSE Least(starts) + 1

\* text[-overlap:]
LastChars(text, n) == IF n = 0 THEN text ELSE SubSeq(text, Len(text) - n + 1, Len(text))

\* _get_overlap_text(text)
GetOverlapText(text, overlap) ==
    IF Len(text) <= overlap THEN text
    ELSE IF SentenceMatchEnd(LastChars(text, overlap)) > 0
    THEN Tail_(LastChars(text, overlap), SentenceMatchEnd(LastChars(text, overlap)) + 1)
    ELSE IF ParagraphMatchEnd(LastChars(text, overlap)) > 0
    THEN Tail_(LastChars(text, overlap), ParagraphMatchEnd(LastChars(text, overlap)) + 1)
    ELSE LastChars(text, overlap)

\* the four sets a chunk starts with
EmptyMetadata ==
    [scenes |-> {}, characters |-> {}, text_types |-> {}, page_numbers |-> {}]

\* `if doc_metadata.get(key)` for a text or None
Truthy(value) == value # None /\ value # <<>>

\* the test that closes the current chunk before a document is added
Overflows(chunk, doc, config) ==
    /\ Len(chunk.content) + Len(doc.text) > config.chunk_size
    /\ Len(chunk.content) > 0

\* the new chunk goes on with the sets of the chunk before it
NewChunk_KeepsMetadata(overlap_text, chunk) ==
    [content |-> overlap_text, metadata |-> chunk.metadata]

\* the chunk that starts with the overlap of the chunk before it
NewChunk(overlap_text, chunk) == [content |-> overlap_text, metadata |-> EmptyMetadata]

\* the loop body from "Add document to current chunk" on; text_type is a
\* non-empty string in every base document
AddDocument(chunk, doc) ==
    [content |-> (IF chunk.content # <<>> THEN chunk.content \o Paragraph ELSE <<>>)
                 \o FormatDocumentContent(doc),
     metadata |->
        [scenes |-> chunk.metadata.scenes
                    \cup (IF Truthy(doc.location) THEN {doc.location} ELSE {}),
         characters |-> chunk.metadata.characters
                        \cup (IF Truthy(doc.character) THEN {doc.character} ELSE {}),
         text_types |-> chunk.metadata.text_types \cup {doc.text_type},
         page_numbers |-> chunk.metadata.page_numbers
                          \cup (IF doc.page_number # 0 THEN {doc.page_number} ELSE {})]]

\* _finalize_chunk(chunk): the lists are kept as the sets they were made of
FinalizeChunk(chunk) ==
    [content |-> chunk.content,
     metadata |-> [scenes |-> chunk.metadata.scenes,
                   characters |-> chunk.metadata.characters,
                   text_types |-> chunk.metadata.text_types,
                   page_numbers |-> chunk.metadata.page_numbers,
                   scene_count |-> Cardinality(chunk.metadata.scenes),
                   character_count |-> Cardinality(chunk.metadata.characters)]]

\* current_chunk['content'].strip() is not empty
NotBlank(s) == \E i \in 1..Len(s) : s[i] \notin Whitespace

\* load_documents: enumerate(chunks) counts from 0, the model from 1
ChunkId(i) == i - 1

\* load_documents: the Document built from the i-th chunk
ChunkDocument(chunk, i) ==
    [id |-> <<"uuid4", DigitStr(i)>>,
     page_content |-> chunk.content,
     metadata |-> [scenes |-> chunk.metadata.scenes,
                   characters |-> chunk.metadata.characters,
                   text_types |-> chunk.metadata.text_types,
                   page_numbers |-> chunk.metadata.page_numbers,
                   scene_count |-> chunk.metadata.scene_count,
                   character_count |-> chunk.metadata.character_count,
                   chunk_id |-> ChunkId(i),
                   source |-> "script_path"]]

\* the number of documents the loop has dealt with
RECURSIVE Consumed(_)
Consumed(trace) ==
    IF trace = <<>> THEN 0 ELSE Len(Head(trace).docs) + Consumed(Tail(trace))

\* what load_documents leaves alone
besideChunker == <<loaderVars, ragVars, qdrantVars, genVars, appVars>>

\* load_documents has the base documents and enters _create_intelligent_chunks
InitChunks ==
    /\ LoaderIdle
    /\ RagIdle
    /\ QdrantIdle
    /\ GeneratorIdle
    /\ AppIdle
    /\ chunk_pc = "chunking"
    /\ chunk_config \in ChunkConfigs
    /\ raw_documents \in BaseDocLists
    /\ chunks = <<>>
    /\ current_chunk = [content |-> <<>>, metadata |-> EmptyMetadata]
    /\ chunk_trace = <<[overlap |-> <<>>, docs |-> <<>>]>>
    /\ chunk_documents = <<>>

\* _create_intelligent_chunks: one turn of `for doc in raw_documents`
ChunkNextDocument ==
    /\ chunk_pc = "chunking"
    /\ Consumed(chunk_trace) < Len(raw_documents)
    /\ LET n == Consumed(chunk_trace) + 1
           doc == raw_documents[n]
           full == Overflows(current_chunk, doc, chunk_config)
           started == IF full
                      THEN NewChunk(GetOverlapText(current_chunk.content,
                                                   chunk_config.overlap),
                                    current_chunk)
                      ELSE current_chunk
       IN  /\ chunks' = IF full THEN Append(chunks, FinalizeChunk(current_chunk))
                        ELSE chunks
           /\ current_chunk' = AddDocument(started, doc)
           /\ chunk_trace' =
                 IF full
                 THEN Append(chunk_trace, [overlap |-> started.content, docs |-> <<n>>])
                 ELSE [chunk_trace EXCEPT ![Len(chunk_trace)].docs = Append(@, n)]
    /\ UNCHANGED <<chunk_pc, chunk_config, raw_documents, chunk_documents>>
    /\ UNCHANGED besideChunker

\* _create_intelligent_chunks: the final chunk is added if it is not blank
ChunkingEnds ==
    /\ chunk_pc = "chunking"
    /\ Consumed(chunk_trace) = Len(raw_documents)
    /\ chunks' = IF NotBlank(current_chunk.content)
                 THEN Append(chunks, FinalizeChunk(current_chunk))
                 ELSE chunks
    /\ chunk_pc' = "chunked"
    /\ UNCHANGED <<chunk_config, raw_documents, current_chunk, chunk_trace,
                   chunk_documents>>
    /\ UNCHANGED besideChunker

\* load_documents: the chunks are numbered and returned as Documents
ReturnDocuments ==
    /\ chunk_pc = "chunked"
    /\ chunk_documents' = [i \in 1..Len(chunks) |-> ChunkDocument(chunks[i], i)]
    /\ chunk_pc' = "loaded"
    /\ UNCHANGED <<chunk_config, raw_documents, chunks, current_chunk, chunk_trace>>
    /\ UNCHANGED besideChunker

NextChunks ==
    \/ ChunkNextDocument
    \/ ChunkingEnds
    \/ ReturnDocuments

SpecChunks == InitChunks /\ [][NextChunks]_vars

\* ================================================================== claims
\* load() has rebound line_items to the merged sequence
Contextualized == pc \in {"contextualize", "returned"}

\* the positions before n of the merged records of kind k
Before(k, n) == {i \in 1..(n - 1) : line_items[i].text_type = k}

\* the text of the last merged record of kind k before position n
LastTextBefore(k, n) ==
    IF Before(k, n) = {} THEN None ELSE line_items[Greatest(Before(k, n))].text

Dialogs == {k \in 1..Len(documents) : documents[k].text_type = "dialog"}

Scenes == {k \in 1..Len(documents) : documents[k].text_type = "scene_description"}

\* C1: every dialog unit carries the text of the most recent location record
\* and of the most recent character record that precede its source record in
\* the merged sequence (None while there is none), so a dialog unit preceded
\* by both kinds has non-null location and character.
C1_DialogContext ==
    Contextualized =>
        \A k \in Dialogs :
            /\ documents[k].line_number \in 1..Len(line_items)
            /\ documents[k].location = LastTextBefore("location", documents[k].line_number)
            /\ documents[k].character = LastTextBefore("character", documents[k].line_number)
            /\ (/\ Before("location", documents[k].line_number) # {}
                /\ Before("character", documents[k].line_number) # {})
               => (documents[k].location # None /\ documents[k].character # None)

\* a dialog unit was emitted after a location and a character record
C1_Witness ==
    /\ pc = "returned"
    /\ \E k \in Dialogs :
          /\ Before("location", documents[k].line_number) # {}
          /\ Before("character", documents[k].line_number) # {}
          /\ documents[k].location # None
          /\ documents[k].character # None

\* the scene-description units emitted before the k-th unit
ScenesBefore(k) == {j \in Scenes : j < k}

\* the id of the last scene-description unit emitted before the k-th unit
LastSceneIdBefore(k) ==
    IF ScenesBefore(k) = {} THEN None
    ELSE documents[Greatest(ScenesBefore(k))].scene_description_id

\* C2: a dialog unit carries the scene_description_id of the most recent
\* scene_description unit emitted before it, null exactly when there is none;
\* the running id always is that of the last scene_description unit emitted,
\* so emitting a dialog unit leaves it unchanged.
C2_DialogSceneId ==
    Contextualized =>
        /\ \A k \in Dialogs :
              /\ documents[k].scene_description_id = LastSceneIdBefore(k)
              /\ (documents[k].scene_description_id = None) <=> (ScenesBefore(k) = {})
        /\ scene_description_id = LastSceneIdBefore(Len(documents) + 1)

\* a dialog unit follows a scene-description unit and carries its id
C2_Witness ==
    /\ pc = "returned"
    /\ \E k \in Dialogs :
          /\ ScenesBefore(k) # {}
          /\ documents[k].scene_description_id # None

\* two records have the same (kind, margin)
SameKey(a, b) == a.text_type = b.text_type /\ a.margin = b.margin

\* s holds two adjacent location or character records with equal (kind, margin)
BadRun(s) ==
    \E i \in 1..(Len(s) - 1) :
        /\ s[i].text_type \in {"location", "character"}
        /\ SameKey(s[i], s[i + 1])

\* C3: when the classified sequence handed to aggregation holds a run of two or
\* more location or character records, load() ends with AssertionError: no
\* documents exist, and line_items is never rebound to merged records.
C3_MalformedRunAborts ==
    BadRun(classified) =>
        /\ pc = "raised"
        /\ error = "AssertionError"
        /\ documents = <<>>
        /\ line_items = classified

\* the run follows a record that would have produced a unit
C3_Witness ==
    /\ pc = "raised"
    /\ error = "AssertionError"
    /\ BadRun(classified)
    /\ classified[1].text_type \in {"description", "dialog"}

\* a call of _parse_page_line has ended
Called == parsed.status # "not called"

\* C4: _parse_page_line never raises: every call returns None or a LineItem
\* with a non-empty text.
C4_ClassifierNeverRaises ==
    Called =>
        \/ parsed.status = "none"
        \/ parsed.status = "item" /\ Len(parsed.item.text) >= 1

\* the margin set configured for a kind
MarginsOf(c, kind) ==
    IF kind = "location" THEN c.location_margins
    ELSE IF kind = "character" THEN c.character_margins
    ELSE IF kind = "description" THEN c.description_margins
    ELSE IF kind = "dialog" THEN c.dialog_margins
    ELSE {}

MarginsFit(s) == \A i \in 1..Len(s) : s[i].margin \in MarginsOf(cfg, s[i].text_type)

\* C5: the margin of every record the classifier returns, and of every merged
\* record aggregation produces, is a member of the margin set configured for
\* the record's kind.
C5_MarginOfKind ==
    /\ parsed.status = "item" => parsed.item.margin \in MarginsOf(cfg, parsed.item.text_type)
    /\ MarginsFit(line_items)
    /\ MarginsFit(classified)

\* aggregation has merged a run into one record
C5_Witness ==
    /\ pc = "returned"
    /\ Len(line_items) >= 1
    /\ Len(line_items) < Len(classified)
    /\ MarginsFit(line_items)

\* the result of the first of the four tests that accepts
FirstOf(loc, chr, des, dia) ==
    IF Accepts(loc) THEN [kind |-> "location", text |-> loc.text, margin |-> loc.margin]
    ELSE IF Accepts(chr) THEN [kind |-> "character", text |-> chr.text, margin |-> chr.margin]
    ELSE IF Accepts(des) THEN [kind |-> "description", text |-> des.text, margin |-> des.margin]
    ELSE IF Accepts(dia) THEN [kind |-> "dialog", text |-> dia.text, margin |-> dia.margin]
    ELSE [kind |-> "None", text |-> None, margin |-> NoneInt]

\* what the call made of a line: ign tells whether an ignore tag occurs in it,
\* first is the first accepting test
DecidedBy(r, ign, first) ==
    /\ r.status = "none" <=> (ign \/ first.kind = "None")
    /\ r.status = "item" =>
          /\ r.item.text_type = first.kind
          /\ r.item.text = first.text
          /\ r.item.margin = first.margin
    /\ r.status \notin {"none", "item"} => first.text = <<>>

\* C6: the ignore list is consulted first, then the location, character,
\* description and dialog tests in this order; the first test that accepts
\* decides the kind, text and margin, and a line is dropped only when an ignore
\* tag occurs in it or every test rejects it (a line the location test rejects
\* for its margin is still put to the three later tests).
C6_FirstMatchWins ==
    Called =>
        DecidedBy(parsed, Ignored(cfg, line_text),
                  FirstOf(GetLocationText(cfg, line_text), GetCharacterText(cfg, line_text),
                          GetDescriptionText(cfg, line_text), GetDialogText(cfg, line_text)))

\* a line both the character and the description test accept is a character
C6_Witness ==
    /\ pc = "classified"
    /\ parsed.status = "item"
    /\ parsed.item.text_type = "character"
    /\ Accepts(GetCharacterText(cfg, line_text))
    /\ Accepts(GetDescriptionText(cfg, line_text))

\* the positions of s where a maximal run of equal (kind, margin) begins
Starts(s) == {i \in 1..Len(s) : i = 1 \/ ~SameKey(s[i], s[i - 1])}

\* the k-th smallest member of the set of positions ps
KthOf(ps, k) == CHOOSE i \in ps : Cardinality({j \in ps : j <= i}) = k

\* the last position of the run of s that begins at i
RunEnd(s, i) ==
    IF {j \in Starts(s) : j > i} = {} THEN Len(s)
    ELSE Least({j \in Starts(s) : j > i}) - 1

\* the texts of s[i..e] with one space between neighbours
RECURSIVE SpaceJoined(_, _, _)
SpaceJoined(s, i, e) ==
    IF i >= e THEN s[i].text ELSE s[i].text \o <<" ">> \o SpaceJoined(s, i + 1, e)

\* the merged record m stands for the run s[i..e]
MergedFrom(m, s, i, e) ==
    /\ i = e => m = s[i]
    /\ m.text = SpaceJoined(s, i, e)
    /\ m.page_number = s[i].page_number
    /\ m.text_type = s[i].text_type
    /\ m.margin = s[i].margin

\* C7: the merged sequence has one record per maximal run of adjacent
\* classified records with equal (kind, margin), in order; a run of one is
\* kept as it is, a longer run has its texts joined by single spaces and the
\* page number, kind and margin of its first member, also across pages.
C7_OneRecordPerRun ==
    Contextualized =>
        /\ Len(line_items) = Cardinality(Starts(classified))
        /\ \A r \in 1..Len(line_items) :
              MergedFrom(line_items[r], classified, KthOf(Starts(classified), r),
                         RunEnd(classified, KthOf(Starts(classified), r)))

\* a run that spans a page break was merged, and a record with the same key
\* behind a different record was not
C7_Witness ==
    /\ pc = "returned"
    /\ Len(classified) = 3
    /\ Len(line_items) = 2
    /\ SameKey(classified[1], classified[2])
    /\ classified[1].page_number # classified[2].page_number
    /\ line_items[1].text = classified[1].text \o <<" ">> \o classified[2].text

\* C8: aggregating the aggregated sequence again succeeds and yields the same
\* sequence: no two adjacent merged records share (kind, margin).
C8_AggregationIdempotent ==
    Contextualized =>
        /\ AggResult(line_items) = [status |-> "ok", items |-> line_items]
        /\ \A i \in 1..(Len(line_items) - 1) : ~SameKey(line_items[i], line_items[i + 1])

\* aggregation merged a run and left at least two records
C8_Witness ==
    /\ pc = "returned"
    /\ Len(line_items) >= 2
    /\ Len(line_items) < Len(classified)

\* the positions of the merged records that emit a unit
Emitting == {i \in 1..Len(line_items) : line_items[i].text_type \in {"description", "dialog"}}

\* C9: the line_number of the k-th unit is the 1-based position in the merged
\* sequence of the k-th description or dialog record, location and character
\* records counted; it lies in 1..Len and grows strictly along the output.
C9_LineNumberIsPosition ==
    Contextualized =>
        /\ Len(documents) <= Cardinality(Emitting)
        /\ \A k \in 1..Len(documents) :
              /\ documents[k].line_number = KthOf(Emitting, k)
              /\ documents[k].line_number \in 1..Len(line_items)
              /\ documents[k].page_number = line_items[KthOf(Emitting, k)].page_number
              /\ k > 1 => documents[k - 1].line_number < documents[k].line_number

\* a unit whose line_number is ahead of its place in the output
C9_Witness ==
    /\ pc = "returned"
    /\ \E k \in 1..Len(documents) : documents[k].line_number > k

UnitType(kind) == IF kind = "description" THEN "scene_description" ELSE kind

\* C10: after each pass of the loop the output holds exactly one unit per
\* description or dialog record processed so far, in order and with its text,
\* and none for a location or character record; load() returns right after
\* the last record, with nothing added.
C10_OneUnitPerRecord ==
    Contextualized =>
        /\ Len(documents) = Cardinality({i \in Emitting : i < idx})
        /\ \A k \in 1..Len(documents) :
              /\ documents[k].text = line_items[KthOf(Emitting, k)].text
              /\ documents[k].text_type = UnitType(line_items[KthOf(Emitting, k)].text_type)
        /\ pc = "returned" => Len(documents) = Cardinality(Emitting)

\* a description and a dialog were emitted, a location or character was not
C10_Witness ==
    /\ pc = "returned"
    /\ Len(line_items) = 3
    /\ Len(documents) = 2
    /\ documents[1].text_type # documents[2].text_type

\* page p lies below start_page or above end_page (None is open)
OutsideWindow(p) ==
    \/ cfg.start_page # NoneInt /\ p < cfg.start_page
    \/ cfg.end_page # NoneInt /\ p > cfg.end_page

\* the positions of the lines of a page the classifier makes a record of
Kept(lines, p) == {i \in 1..Len(lines) : ParsedRaw[lines[i], p].status = "item"}

\* the records of the lines of page p, in the order of the lines
RecordsOf(lines, p) ==
    [k \in 1..Cardinality(Kept(lines, p)) |-> ParsedRaw[lines[KthOf(Kept(lines, p), k)], p].item]

\* C11: parse_page returns the empty list for a page below start_page or above
\* end_page whatever its text, and the records of the page's lines in order
\* for a page at or between the bounds; when the window holds no page, load()
\* does not raise and returns no documents.
C11_PageWindow ==
    /\ \A p \in Pages :
          parsed_pages[p].status = "ok" =>
              IF OutsideWindow(p) THEN parsed_pages[p].items = <<>>
              ELSE parsed_pages[p].items = RecordsOf(page_texts[p], p)
    /\ (\A p \in Pages : OutsideWindow(p)) =>
          /\ pc # "raised"
          /\ pc = "returned" => documents = <<>>

\* load() returned nothing although a page held lines that classify
C11_Witness ==
    /\ pc = "returned"
    /\ \A p \in Pages : OutsideWindow(p)
    /\ \E p \in Pages : RecordsOf(page_texts[p], p) # <<>>
    /\ documents = <<>>

\* the tag occurs in s at position i
TagAt(tag, s, i) ==
    /\ i + Len(tag) - 1 <= Len(s)
    /\ \A j \in 1..Len(tag) : s[i + j - 1] = tag[j]

\* one of the ignore substrings of the parser occurs somewhere in s
ContainsTag(c, s) == \E tag \in c.ignoread_tags : \E i \in 1..Len(s) : TagAt(tag, s, i)

\* C12: a line in which an ignore substring occurs anywhere is never
\* classified: _parse_page_line returns None for it, whatever its margin and
\* case and whichever of the four tests would accept it.
C12_IgnoredLineDropped ==
    Called => (ContainsTag(cfg, line_text) => parsed.status = "none")

\* a line with a tag in its middle that the description test would accept
C12_Witness ==
    /\ pc = "classified"
    /\ parsed.status = "none"
    /\ ContainsTag(cfg, line_text)
    /\ \A tag \in cfg.ignoread_tags : ~TagAt(tag, line_text, WsRun(line_text, 1) + 1)
    /\ Accepts(GetDescriptionText(cfg, line_text))

DefaultConstructed == TagFadeIn \in cfg.ignoread_tags

\* C14 as stated: the four margin sets of the parser are pairwise disjoint.
C14_MarginSetsDisjoint ==
    /\ cfg.location_margins \cap cfg.description_margins = {}
    /\ cfg.location_margins \cap cfg.dialog_margins = {}
    /\ cfg.location_margins \cap cfg.character_margins = {}
    /\ cfg.description_margins \cap cfg.dialog_margins = {}
    /\ cfg.description_margins \cap cfg.character_margins = {}
    /\ cfg.dialog_margins \cap cfg.character_margins = {}

\* C14, amended: in a parser constructed with the default arguments the
\* location and the description margins are the same set and every other pair
\* of margin sets is disjoint; a record at a margin the two sets share is a
\* location exactly when the location test accepts the line, and a
\* description otherwise.
C14_DefaultMarginSets ==
    DefaultConstructed =>
        /\ cfg.location_margins = cfg.description_margins
        /\ cfg.location_margins \cap cfg.dialog_margins = {}
        /\ cfg.location_margins \cap cfg.character_margins = {}
        /\ cfg.dialog_margins \cap cfg.character_margins = {}
        /\ (parsed.status = "item" /\ parsed.item.margin \in cfg.location_margins) =>
              /\ parsed.item.text_type \in {"location", "description"}
              /\ parsed.item.text_type = "location" <=> Accepts(GetLocationText(cfg, line_text))

\* a line at margin 8 the location test rejects became a description
C14_Witness ==
    /\ pc = "classified"
    /\ DefaultConstructed
    /\ parsed.status = "item"
    /\ parsed.item.margin \in cfg.location_margins \cap cfg.description_margins
    /\ parsed.item.text_type = "description"

\* the records of the pages p.. parsed one after the other in page order by
\* the parser c, each call leaving the parser to the next
RECURSIVE SeqParse(_, _)
SeqParse(c, p) ==
    IF p >= MaxPages THEN <<>>
    ELSE ParsePage(c, page_texts[p], p).items \o SeqParse(ParsePageSelf(c, p), p + 1)

\* the units the loop of load() makes of the merged records items[i..]
RECURSIVE Contextualize(_, _, _, _, _)
Contextualize(items, i, loc, sid, chr) ==
    IF i > Len(items) THEN <<>>
    ELSE Emitted(items[i], i, loc, sid, chr)
         \o Contextualize(items, i + 1, NextLocation(loc, items[i]),
                          NextSceneDescriptionId(sid, items[i]),
                          NextCharacter(chr, items[i]))

\* every page has been parsed and the results are put together by page number
Reassembled == pc \in {"aggregate", "contextualize", "returned"}

CloseAfter(s, i) ==
    IF {j \in (i + 1)..Len(s) : s[j] = ")"} = {} THEN 0
    ELSE Least({j \in (i + 1)..Len(s) : s[j] = ")"})

\* the position of the first "(" of s that has a ")" behind it, 0 if none
FirstGroup(s) ==
    IF {i \in 1..Len(s) : s[i] = "(" /\ CloseAfter(s, i) > 0} = {} THEN 0
    ELSE Least({i \in 1..Len(s) : s[i] = "(" /\ CloseAfter(s, i) > 0})

\* s with every parenthetical group taken out and all other characters kept
RECURSIVE WithoutGroups(_)
WithoutGroups(s) ==
    IF FirstGroup(s) = 0 THEN s
    ELSE SubSeq(s, 1, FirstGroup(s) - 1)
         \o WithoutGroups(Tail_(s, CloseAfter(s, FirstGroup(s)) + 1))

\* C16: the text of a character record is the remainder of the line behind
\* its leading run with the parenthetical groups taken out, everything
\* outside a group kept (also between two groups), and trimmed; the margin is
\* the length of the leading run.
C16_CueKeepsTextOutsideGroups ==
    (Called /\ parsed.status = "item" /\ parsed.item.text_type = "character") =>
        /\ parsed.item.margin = WsRun(line_text, 1)
        /\ parsed.item.text = Strip(WithoutGroups(Tail_(line_text, WsRun(line_text, 1) + 1)))

\* C17: the classified sequence handed to aggregation never holds two
\* adjacent location records of one margin nor two adjacent character records
\* of one margin, whatever the pages and their lines.
C17_NoAdjacentCues ==
    pc = "aggregate" =>
        \A i \in 1..(Len(line_items) - 1) :
            line_items[i].text_type \in {"location", "character"}
                => ~SameKey(line_items[i], line_items[i + 1])

\* the loop of load() has not processed a record yet
NothingProcessed == pc \notin {"contextualize", "returned"} \/ idx = 1

\* the step processes the record li: each running variable changes only for
\* the kind that sets it, and then to the value of that record
ProcessedFrame(li) ==
    /\ li.text_type = "location" => location' = li.text
    /\ li.text_type # "location" => location' = location
    /\ li.text_type = "character" => character' = li.text
    /\ li.text_type # "character" => character' = character
    /\ li.text_type # "description" => scene_description_id' = scene_description_id
    /\ li.text_type = "description" => scene_description_id' # None

\* C18: location, character and scene_description_id are None until the loop
\* processes a record; a step that processes a record changes location only
\* for a location record, character only for a character record and
\* scene_description_id only for a description record, and no other step
\* changes any of them.
C18_RunningVariables ==
    /\ [](NothingProcessed =>
            location = None /\ character = None /\ scene_description_id = None)
    /\ [][IF pc = "contextualize" /\ idx' = idx + 1
          THEN ProcessedFrame(line_items[idx])
          ELSE UNCHANGED <<location, character, scene_description_id>>]_vars

\* the character outlived a later location or description record
C18_Witness ==
    /\ pc = "returned"
    /\ character # None
    /\ \E i \in 1..Len(line_items) : \E j \in 1..Len(line_items) :
          /\ i < j
          /\ line_items[i].text_type = "character"
          /\ line_items[j].text_type \in {"location", "description"}
          /\ character = line_items[i].text

\* the calls made so far are the first calls of the sequence ops, in order
CallsBegin(ops) ==
    /\ Len(calls) <= Len(ops)
    /\ \A i \in 1..Len(calls) : calls[i].op = ops[i]

\* the run is one of query(), which has a top_k, and not one of index()
QueryRun == rag_pc # "idle" /\ top_k # NoneInt

\* the number of calls of op made so far
Count(op) == Cardinality({i \in 1..Len(calls) : calls[i].op = op})

\* C19: index() asks retriever.is_initialized() first. When the answer is
\* true nothing else is called; when it is false load_documents is called
\* once and then index_documents once, with the very list load_documents
\* returned. At no point has any other call been made.
C19_IndexOnlyIfNotInitialized ==
    (rag_pc # "idle" /\ top_k = NoneInt) =>
        /\ CallsBegin(<<"is_initialized", "load_documents", "index_documents">>)
        /\ (Len(calls) >= 2 => calls[1].returned = FALSE)
        /\ (rag_pc = "index returned" /\ initialized) =>
              /\ Len(calls) = 1
              /\ Count("load_documents") = 0
              /\ Count("index_documents") = 0
        /\ (rag_pc = "index returned" /\ ~initialized) =>
              /\ Len(calls) = 3
              /\ Count("load_documents") = 1
              /\ Count("index_documents") = 1
              /\ calls[3].args = <<calls[2].returned>>

\* both outcomes of index(): here the one that loaded and indexed two documents
C19_Witness ==
    /\ rag_pc = "index returned"
    /\ ~initialized
    /\ Len(calls) = 3
    /\ Len(calls[2].returned) = 2
    /\ calls[3].args = <<calls[2].returned>>

\* the documents ds are those of the retrieval results rr, in their order
DocumentsOf(ds, rr) ==
    /\ Len(ds) = Len(rr)
    /\ \A i \in 1..Len(rr) : ds[i] = rr[i].document

\* C20: query() calls retriever.retrieve once with (question, top_k), then
\* generator.generate_response once with the question and the retrieved
\* documents in retrieval order, and returns the generator's result, whose
\* retrieved_documents is the whole retrieval result when attach_documents is
\* true and stays empty when it is false.
C20_QueryRetrievesThenGenerates ==
    QueryRun =>
        /\ CallsBegin(<<"retrieve", "generate_response">>)
        /\ rag_pc \in {"generate_response", "attach", "query returned"} =>
              /\ Len(calls) >= 1
              /\ calls[1].args = <<question, top_k>>
              /\ retrieval_results = calls[1].returned
        /\ rag_pc \in {"attach", "query returned"} =>
              /\ Len(calls) = 2
              /\ calls[2].args[1] = question
              /\ DocumentsOf(calls[2].args[2], calls[1].returned)
        /\ rag_pc = "query returned" =>
              /\ result.query = calls[2].returned.query
              /\ result.answer = calls[2].returned.answer
              /\ attach_documents => result.retrieved_documents = calls[1].returned
              /\ ~attach_documents => result.retrieved_documents = <<>>

\* two different documents were retrieved and attached in retrieval order
C20_Witness ==
    /\ rag_pc = "query returned"
    /\ attach_documents
    /\ Len(result.retrieved_documents) = 2
    /\ result.retrieved_documents[1].document # result.retrieved_documents[2].document
    /\ calls[2].args[2] = <<result.retrieved_documents[1].document,
                            result.retrieved_documents[2].document>>

\* the calls of op among the entries cs of the log
CountIn(op, cs) == Cardinality({i \in 1..Len(cs) : cs[i].op = op})

\* the entries a step adds to the log of calls
NewCalls == SubSeq(calls', Len(calls) + 1, Len(calls'))

\* C21: retrieve returns one RetrievalResult per search hit, in the order of
\* the hits: the rank is the 1-based position, the score is the hit's, the
\* document id is the hit's "_id" metadata or "result-<0-based index>" when
\* the hit has none, and the metadata are the hit's without the "_id" key.
C21_RetrieveMapsHits ==
    /\ Len(results) = Len(search_results)
    /\ \A j \in 1..Len(results) :
          LET r == results[j]
              hit == search_results[j]
          IN  /\ r.rank = j
              /\ r.score = hit.score
              /\ r.document.page_content = hit.page_content
              /\ r.document.id = IF "_id" \in DOMAIN hit.metadata
                                 THEN hit.metadata["_id"]
                                 ELSE <<"result-", DigitStr(j - 1)>>
              /\ DOMAIN r.document.metadata = DOMAIN hit.metadata \ {"_id"}
              /\ \A k \in DOMAIN r.document.metadata :
                    r.document.metadata[k] = hit.metadata[k]

\* retrieve returned two results, the first for a hit with an "_id" next to
\* another key and the second for a hit without one
C21_Witness ==
    /\ qdrant_pc = "returned"
    /\ Len(results) = 2
    /\ DOMAIN search_results[1].metadata = {"_id", "source"}
    /\ "_id" \notin DOMAIN search_results[2].metadata
    /\ results[2].document.id = <<"result-", "1">>

\* C22: index_documents with a non-empty list creates the collection exactly
\* when it does not exist yet, sets the vector store up only when it is None,
\* and adds the given documents once; with an empty list it calls nothing and
\* leaves the collection and the vector store as they are.
C22_IndexDocumentsEffect ==
    [][\A j \in (Len(calls) + 1)..Len(calls') :
          calls'[j].op = "index_documents" =>
             LET ds == calls'[j].args[1]
                 made == SubSeq(calls', j + 1, Len(calls'))
             IN  IF ds # <<>>
                 THEN /\ CountIn("create_collection", made)
                            = IF client.collection_exists THEN 0 ELSE 1
                      /\ CountIn("QdrantVectorStore", made)
                            = IF vectorstore = "None" THEN 1 ELSE 0
                      /\ CountIn("add_documents", made) = 1
                      /\ made[Len(made)] = Call("add_documents", <<ds>>, None)
                      /\ client'.collection_exists
                      /\ client'.points = client.points \o ds
                      /\ vectorstore' = "QdrantVectorStore"
                 ELSE /\ made = <<>>
                      /\ client' = client
                      /\ vectorstore' = vectorstore]_vars

\* index_documents was called twice with documents: the first call created
\* the collection and the second found it and added to it
C22_Witness ==
    /\ Count("add_documents") = 2
    /\ Count("create_collection") = 1
    /\ Count("QdrantVectorStore") = 1
    /\ Len(client.points) >= 2

\* the positions of the log where load_documents handed documents over
LoadsOfDocuments ==
    {i \in 1..Len(calls) : calls[i].op = "load_documents" /\ calls[i].returned # <<>>}

\* C24: once documents have been added to the collection, is_initialized()
\* is true, and no later index() loads or indexes: after the addition the log
\* holds no load_documents (which every indexing by index() follows), every
\* later index() is answered true by is_initialized(), and documents were
\* loaded and indexed at most once.
C24_IndexedOnce ==
    /\ \A i \in 1..Len(calls) :
          calls[i].op = "add_documents" =>
             /\ client.collection_exists
             /\ Len(client.points) > 0
             /\ \A j \in (i + 1)..Len(calls) :
                   /\ calls[j].op # "load_documents"
                   /\ calls[j].op = "index" =>
                         /\ j < Len(calls)
                         /\ calls[j + 1] = Call("is_initialized", <<>>, TRUE)
    /\ Cardinality(LoadsOfDocuments) <= 1

\* an index() that loaded and indexed documents was followed by another
\* index()
C24_Witness ==
    \E i \in LoadsOfDocuments :
       \E j \in (i + 1)..Len(calls) : calls[j].op = "index"

\* C25: retrieve raises ValueError and makes no similarity search whenever
\* the collection does not exist or holds no points, and a POST /agent/query
\* that meets this error answers with status 500.
C25_RetrieveNeedsIndex ==
    [][\A j \in (Len(calls) + 1)..Len(calls') :
          (/\ calls'[j].op = "retrieve"
           /\ (~client.collection_exists \/ Len(client.points) = 0)) =>
             /\ calls'[j].returned = "ValueError"
             /\ CountIn("similarity_search_with_score", NewCalls) = 0
             /\ CountIn("generate_response", NewCalls) = 0
             /\ search_results' = <<>>
             /\ CountIn("matrix_query", NewCalls) = 1 =>
                   /\ response'.status_code = 500
                   /\ response'.body = None]_vars

\* index() found the loader empty, and the POST /agent/query that followed
\* was answered with status 500
C25_Witness ==
    /\ qdrant_pc = "responded"
    /\ \E i \in 1..Len(calls) :
          /\ calls[i].op = "load_documents"
          /\ calls[i].returned = <<>>
          /\ \E j \in (i + 1)..Len(calls) : calls[j].op = "matrix_query"
    /\ response.status_code = 500

\* two characters that are equal when case is set aside
SameLetter(a, b) ==
    \/ a = b
    \/ \E n \in 1..26 : {a, b} = {LowerLetters[n], UpperLetters[n]}

\* the phrase occurs in s when case is set aside
ContainsIgnoringCase(phrase, s) ==
    \E i \in 1..(Len(s) - Len(phrase) + 1) :
       \A j \in 1..Len(phrase) : SameLetter(s[i + j - 1], phrase[j])

\* the query holds an indicator phrase, in whatever case, or two "?"
ComplexByText ==
    \/ \E phrase \in ComplexIndicators : ContainsIgnoringCase(phrase, gen_query)
    \/ Cardinality({i \in 1..Len(gen_query) : gen_query[i] = "?"}) > 1

\* C23: generate_response takes the complex path exactly when the query,
\* case set aside, contains an indicator phrase or holds more than one "?".
\* The simple path is one run of the response agent on the query. On the
\* complex path the decomposition agent runs first, the response agent then
\* answers the subqueries in order, and the synthesis agent runs last, after
\* every subquery has been answered.
C23_PathByQuery ==
    /\ gen_pc \in {"decompose", "subquery", "synthesize"} => ComplexByText
    /\ gen_pc = "simple" => ~ComplexByText
    /\ gen_pc = "returned" => calls # <<>>
    /\ gen_pc \notin {"idle", "generate_response"} /\ calls # <<>> =>
          IF ComplexByText
          THEN /\ calls[1].op = "decomposition_agent"
               /\ calls[1].args = <<gen_query>>
               /\ \A i \in 2..Len(calls) :
                     \/ /\ calls[i].op = "response_agent"
                        /\ i - 1 <= Len(subqueries)
                        /\ calls[i].args = <<subqueries[i - 1]>>
                     \/ /\ calls[i].op = "advanced_agent"
                        /\ ~calls[1].returned.raised
                        /\ i = Len(subqueries) + 2
                        /\ Len(subquery_responses) = Len(subqueries)
          ELSE /\ Len(calls) = 1
               /\ calls[1].op = "response_agent"
               /\ calls[1].args = <<gen_query>>

\* a query that holds an indicator only in capitals and no "?" was
\* decomposed into two subqueries, both were answered and the synthesis ran
C23_Witness ==
    /\ gen_pc = "returned"
    /\ gen_query = <<"W", "H", "O", " ", "C", "R", "E", "A", "T", "E", "D", " ", "i", "t">>
    /\ Len(subqueries) = 2
    /\ Len(calls) = 4
    /\ calls[4].op = "advanced_agent"

\* C26: generate_response returns a QueryResult for the original query even
\* when an agent run raises. A failed simple query and a failed decomposition
\* give confidence 0 and no sources; a failed synthesis gives the answer of a
\* subquery response of the highest confidence with the union of the sources
\* of all subquery responses, also when there are no subqueries.
C26_FailuresBecomeResults ==
    gen_pc = "returned" =>
       LET last == calls[Len(calls)]
           rs == subquery_responses
       IN  /\ gen_result.query = gen_query
           /\ (last.op \in {"response_agent", "decomposition_agent"}
               /\ last.returned.raised) =>
                 /\ gen_result.confidence = 0
                 /\ gen_result.sources_used = {}
           /\ (last.op = "advanced_agent" /\ last.returned.raised) =>
                 /\ \E i \in 1..Len(rs) :
                       /\ \A j \in 1..Len(rs) : rs[j].confidence <= rs[i].confidence
                       /\ gen_result.answer
                             = <<"Based on partial analysis: ">> \o rs[i].answer
                 /\ gen_result.sources_used
                       = UNION {rs[j].sources_used : j \in 1..Len(rs)}

\* the requests that have been given a RAGService instance
Served == {r \in DOMAIN requests : requests[r].rag_service # NoneInt}

\* C27: the RAG service is built and indexed at most once: however the
\* requests interleave, the services are constructed once, index() runs once
\* and all requests are given the same RAGService instance.
C27_BuiltOnce ==
    /\ constructed <= 1
    /\ index_runs <= 1
    /\ \A r, s \in Served : requests[r].rag_service = requests[s].rag_service

\* '\n\n'.join(parts)
RECURSIVE ParagraphJoin(_)
ParagraphJoin(parts) ==
    IF parts = <<>> THEN <<>>
    ELSE IF Len(parts) = 1 THEN parts[1]
    ELSE parts[1] \o Paragraph \o ParagraphJoin(Tail(parts))

\* the overlap chunk k started with, if any, and then the documents added to
\* it, each rendered by Render
Pieces(k, Render(_)) ==
    (IF chunk_trace[k].overlap = <<>> THEN <<>> ELSE <<chunk_trace[k].overlap>>)
    \o [j \in 1..Len(chunk_trace[k].docs) |-> Render(raw_documents[chunk_trace[k].docs[j]])]

\* the documents added to the chunks 1..k, chunk after chunk
RECURSIVE AddedUpTo(_)
AddedUpTo(k) == IF k = 0 THEN <<>> ELSE AddedUpTo(k - 1) \o chunk_trace[k].docs

\* the documents added to chunk k
AddedTo(k) == {raw_documents[chunk_trace[k].docs[j]] : j \in 1..Len(chunk_trace[k].docs)}

\* C28: each base document's formatted content is added, in input order, to
\* exactly one chunk; every emitted chunk has content and holds at least one
\* added document; the scenes, characters, text types and page numbers of a
\* chunk are those of the documents added to it and of no other; and
\* load_documents numbers the chunks 0..n-1 in order.
C28_ChunksHoldDocuments ==
    /\ \A k \in 1..Len(chunks) :
          /\ chunks[k].content # <<>>
          /\ chunk_trace[k].docs # <<>>
          /\ chunks[k].content = ParagraphJoin(Pieces(k, FormatDocumentContent))
          /\ chunks[k].metadata.scenes
                = {d.location : d \in {e \in AddedTo(k) : e.location # None}}
          /\ chunks[k].metadata.characters
                = {d.character : d \in {e \in AddedTo(k) : e.character # None}}
          /\ chunks[k].metadata.text_types = {d.text_type : d \in AddedTo(k)}
          /\ chunks[k].metadata.page_numbers = {d.page_number : d \in AddedTo(k)}
    /\ chunk_pc \in {"chunked", "loaded"} =>
          AddedUpTo(Len(chunks)) = [i \in 1..Len(raw_documents) |-> i]
    /\ chunk_pc = "loaded" =>
          /\ Len(chunk_documents) = Len(chunks)
          /\ \A i \in 1..Len(chunks) :
                /\ chunk_documents[i].metadata.chunk_id = i - 1
                /\ chunk_documents[i].page_content = chunks[i].content

\* two documents went into the first chunk, the second chunk began with an
\* overlap, and the scene of the first chunk is no scene of the second
C28_Witness ==
    /\ chunk_pc = "loaded"
    /\ Len(chunks) = 2
    /\ Len(chunk_trace[1].docs) = 2
    /\ chunk_trace[2].overlap # <<>>
    /\ chunks[1].metadata.scenes # {}
    /\ chunks[2].metadata.scenes = {}

\* C29: a chunk that holds the added content of more than one document is
\* at most chunk_size long, and the overlap a chunk starts with is a suffix
\* of the content of the chunk before it, at most overlap long.
C29_ChunkSizeKept ==
    \A k \in 1..Len(chunks) :
       /\ Len(chunk_trace[k].docs) > 1 =>
             Len(chunks[k].content) <= chunk_config.chunk_size
       /\ k > 1 =>
             /\ Len(chunk_trace[k].overlap) <= chunk_config.overlap
             /\ Len(chunk_trace[k].overlap) <= Len(chunks[k - 1].content)
             /\ chunk_trace[k].overlap
                   = LastChars(chunks[k - 1].content, Len(chunk_trace[k].overlap))

\* the label the dialogs and scene descriptions are to carry
LabelledBySpeaker(doc) ==
    IF doc.text_type = "dialog"
    THEN (IF doc.character = None THEN <<"U", "N", "K", "N", "O", "W", "N">>
          ELSE doc.character) \o <<":", " ">> \o doc.text
    ELSE <<"[", "S", "C", "E", "N", "E", "]", " ">> \o doc.text

\* C30: a dialog is rendered as '<name>: <text>' when it has a character,
\* as 'UNKNOWN: <text>' when its character is null, and a scene description
\* as '[SCENE] <text>': the chunks hold the documents rendered in this way.
C30_DialogsLabelled ==
    \A k \in 1..Len(chunks) :
       chunks[k].content = ParagraphJoin(Pieces(k, LabelledBySpeaker))

====
